---- MODULE Spec2Model ----
(***************************************************************************)
(* Model of the Ollama service client of privatepdf                        *)
(* (src/src-tauri/src/ollama.rs): the service probes, the NDJSON decoder    *)
(* loop shared by ollama_chat_stream and download_ollama_model, the chat    *)
(* requests, the service launcher and terminator, the install workflow.     *)
(*                                                                         *)
(* Text is a sequence of Unicode code points (a Rust String), a network    *)
(* chunk is a sequence of bytes 0..255.                                     *)
(***************************************************************************)
EXTENDS Integers, Sequences, FiniteSets, TLC

(***************************************************************************)
(* Bounds of the model.                                                    *)
(***************************************************************************)
\* Largest number of newline-terminated lines the server sends in a stream.
MaxLines == 2
\* Largest size of a network chunk that is not the rest of the stream.
MaxChunk == 3

(***************************************************************************)
(* String::from_utf8_lossy: every maximal invalid part of the bytes becomes *)
(* one U+FFFD; a multi-byte sequence cut by the end of the input is invalid.*)
(***************************************************************************)
REPLACEMENT_CHARACTER == 65533

InRange(s, i, lo, hi) == i <= Len(s) /\ s[i] >= lo /\ s[i] <= hi

\* The decoding of the bytes from index i: n bytes consumed, code point c.
Utf8Step(s, i) ==
  LET b0 == s[i]
      bad(k) == [n |-> k, c |-> REPLACEMENT_CHARACTER, ok |-> FALSE]
  IN  IF b0 < 128 THEN [n |-> 1, c |-> b0, ok |-> TRUE]
      ELSE IF b0 >= 194 /\ b0 <= 223 THEN
        IF InRange(s, i + 1, 128, 191)
        THEN [n |-> 2, c |-> (b0 - 192) * 64 + (s[i + 1] - 128), ok |-> TRUE]
        ELSE bad(1)
      ELSE IF b0 >= 224 /\ b0 <= 239 THEN
        LET lo == IF b0 = 224 THEN 160 ELSE 128
            hi == IF b0 = 237 THEN 159 ELSE 191
        IN  IF ~InRange(s, i + 1, lo, hi) THEN bad(1)
            ELSE IF ~InRange(s, i + 2, 128, 191) THEN bad(2)
            ELSE [n |-> 3, ok |-> TRUE,
                  c |-> (b0 - 224) * 4096 + (s[i + 1] - 128) * 64 + (s[i + 2] - 128)]
      ELSE IF b0 >= 240 /\ b0 <= 244 THEN
        LET lo == IF b0 = 240 THEN 144 ELSE 128
            hi == IF b0 = 244 THEN 143 ELSE 191
        IN  IF ~InRange(s, i + 1, lo, hi) THEN bad(1)
            ELSE IF ~InRange(s, i + 2, 128, 191) THEN bad(2)
            ELSE IF ~InRange(s, i + 3, 128, 191) THEN bad(3)
            ELSE [n |-> 4, ok |-> TRUE,
                  c |-> (b0 - 240) * 262144 + (s[i + 1] - 128) * 4096
                        + (s[i + 2] - 128) * 64 + (s[i + 3] - 128)]
      ELSE bad(1)

\* Whether a decoding step starts at index i.  A step takes one byte, or a
\* lead byte and the continuation bytes (128..191) that follow it, so a byte
\* that is no continuation byte starts a step, and a continuation byte starts
\* one (a U+FFFD of its own) unless the step of the nearest earlier lead byte,
\* at most three bytes back, covers it.
IsStep(s, i) ==
  \/ ~InRange(s, i, 128, 191)
  \/ \A j \in 1..3 :
       \/ i - j < 1
       \/ \E k \in 1..(j - 1) : ~InRange(s, i - k, 128, 191)
       \/ InRange(s, i - j, 128, 191)
       \/ (i - j) + Utf8Step(s, i - j).n <= i

\* The indices at which the decoding steps start, in order.
Utf8Steps(s) == SelectSeq([i \in 1..Len(s) |-> i], LAMBDA i : IsStep(s, i))

from_utf8_lossy(bytes) ==
  LET steps == Utf8Steps(bytes) IN
    [k \in 1..Len(steps) |-> Utf8Step(bytes, steps[k]).c]

\* Whether the bytes are valid UTF-8 (str::from_utf8 succeeds).
Utf8Valid(bytes) ==
  LET steps == Utf8Steps(bytes) IN
    \A k \in 1..Len(steps) : Utf8Step(bytes, steps[k]).ok

(***************************************************************************)
(* str::trim().is_empty(): the text holds only Unicode White_Space.         *)
(***************************************************************************)
IsWhitespace(c) ==
  \/ c >= 9 /\ c <= 13
  \/ c \in {32, 133, 160, 5760, 8232, 8233, 8239, 8287, 12288}
  \/ c >= 8192 /\ c <= 8202

TrimIsEmpty(line) == \A i \in DOMAIN line : IsWhitespace(line[i])

(***************************************************************************)
(* f64 arithmetic.  A natural number is written in base 2^14, the least     *)
(* significant digit first and the most significant one not 0 (0 is <<>>).  *)
(* A finite f64 is a sign, a mantissa m and an exponent e: it is m * 2^e,   *)
(* where m is odd and below 2^53, and e is -1074 at least; zero is m = 0    *)
(* and e = 0.  Every operation rounds its exact result to the nearest f64,  *)
(* ties to the even mantissa, and gives an infinity from 2^1024 on.         *)
(***************************************************************************)
LIMB_BITS == 14
LIMB == 16384
F64_MANTISSA_DIGITS == 53
F64_MAX_EXP == 1024
F64_DENORM_EXP == -1074

F64(neg, m, e) == [neg |-> neg, inf |-> FALSE, m |-> m, e |-> e]
Infinity(neg) == [neg |-> neg, inf |-> TRUE, m |-> <<>>, e |-> 0]
Zero(neg) == F64(neg, <<>>, 0)

\* The digit of weight LIMB^(k-1).
Limb(n, k) == IF k \in DOMAIN n THEN n[k] ELSE 0

\* The digits without the zeros above the most significant one.
Canonical(n) ==
  SubSeq(n, 1, IF \A k \in DOMAIN n : n[k] = 0 THEN 0
               ELSE CHOOSE k \in DOMAIN n : n[k] # 0 /\ \A j \in (k + 1)..Len(n) : n[j] = 0)

\* A number of TLA+ as digits.
RECURSIVE NatOf(_)
NatOf(x) == IF x = 0 THEN <<>> ELSE <<x % LIMB>> \o NatOf(x \div LIMB)

\* The number of bits of a digit, and of a number.
SmallBits(x) == CHOOSE j \in 0..LIMB_BITS : x < 2^(j) /\ (j = 0 \/ x >= 2^(j - 1))
BitLen(n) == IF n = <<>> THEN 0 ELSE LIMB_BITS * (Len(n) - 1) + SmallBits(n[Len(n)])

\* The bit of weight 2^i.
Bit(n, i) == (Limb(n, i \div LIMB_BITS + 1) \div 2^(i % LIMB_BITS)) % 2

\* Whether the s lowest bits are all 0.
LowZero(n, s) ==
  /\ \A k \in DOMAIN n : k <= s \div LIMB_BITS => n[k] = 0
  /\ Limb(n, s \div LIMB_BITS + 1) % 2^(s % LIMB_BITS) = 0

\* n * 2^(LIMB_BITS * a + b) and n \div 2^(LIMB_BITS * a + b), b < LIMB_BITS.
ShlBy(n, a, b) ==
  Canonical([k \in 1..(Len(n) + a + 1) |->
          (Limb(n, k - a) % 2^(LIMB_BITS - b)) * 2^(b)
          + Limb(n, k - a - 1) \div 2^(LIMB_BITS - b)])
ShrBy(n, a, b) ==
  Canonical([k \in 1..Len(n) |->
          Limb(n, k + a) \div 2^(b)
          + (Limb(n, k + a + 1) % 2^(b)) * 2^(LIMB_BITS - b)])
Shl(n, s) == ShlBy(n, s \div LIMB_BITS, s % LIMB_BITS)
Shr(n, s) == ShrBy(n, s \div LIMB_BITS, s % LIMB_BITS)

\* The number of zero bits below the lowest bit that is 1, n # 0.
LowestLimb(n) == CHOOSE k \in DOMAIN n : n[k] # 0 /\ \A j \in 1..(k - 1) : n[j] = 0
LowestBit(x) == CHOOSE i \in 0..(LIMB_BITS - 1) : x % 2^(i + 1) # 0 /\ x % 2^(i) = 0
TrailingZeros(n) == LIMB_BITS * (LowestLimb(n) - 1) + LowestBit(n[LowestLimb(n)])

\* n + 1.
IncAt(n, k) ==
  Canonical([i \in 1..(Len(n) + 1) |->
          IF i < k THEN 0 ELSE IF i = k THEN Limb(n, i) + 1 ELSE Limb(n, i)])
Inc(n) == IncAt(n, CHOOSE k \in 1..(Len(n) + 1) :
                     Limb(n, k) # LIMB - 1 /\ \A j \in 1..(k - 1) : n[j] = LIMB - 1)

\* a >= b.
Geq(a, b) ==
  /\ Len(a) >= Len(b)
  /\ ~\E k \in DOMAIN a : a[k] < Limb(b, k) /\ \A j \in (k + 1)..Len(a) : a[j] = Limb(b, j)

\* a - b, where a >= b: digit k borrows when a lower digit of a is below
\* b's and no digit between is above b's.
Borrow(a, b, k) ==
  IF \E j \in 1..(k - 1) : a[j] < Limb(b, j) /\ \A i \in (j + 1)..(k - 1) : a[i] <= Limb(b, i)
  THEN 1 ELSE 0
Sub(a, b) == Canonical([k \in 1..Len(a) |-> (a[k] - Limb(b, k) - Borrow(a, b, k) + LIMB) % LIMB])

\* a + b: digit k is carried into when a lower digit overflows and every
\* digit between is full.
CarryIn(a, b, k) ==
  IF \E j \in 1..(k - 1) :
       /\ Limb(a, j) + Limb(b, j) >= LIMB
       /\ \A i \in (j + 1)..(k - 1) : Limb(a, i) + Limb(b, i) >= LIMB - 1
  THEN 1 ELSE 0
AddTo(a, b, len) ==
  Canonical([k \in 1..(len + 1) |-> (Limb(a, k) + Limb(b, k) + CarryIn(a, b, k)) % LIMB])
Add(a, b) == AddTo(a, b, IF Len(a) >= Len(b) THEN Len(a) ELSE Len(b))

\* n * x + y, for a digit x and a digit y: the low digits of the products
\* and, one place up, their high digits.
MulSmall(n, x, y) ==
  IF n = <<>> THEN (IF y = 0 THEN <<>> ELSE <<y>>)
  ELSE Add([k \in 1..Len(n) |-> (n[k] * x + (IF k = 1 THEN y ELSE 0)) % LIMB],
           [k \in 1..(Len(n) + 1) |->
              IF k = 1 THEN 0 ELSE (n[k - 1] * x + (IF k = 2 THEN y ELSE 0)) \div LIMB])

\* a * b, for numbers of four digits at most: the sums of the products of
\* each weight, in three parts of a digit each.
RECURSIVE Column(_, _, _, _)
Column(a, b, k, i) ==
  IF i > Len(a) THEN 0 ELSE a[i] * Limb(b, k + 1 - i) + Column(a, b, k, i + 1)
Part(c, p) == [k \in 1..(Len(c) + p) |-> IF k <= p THEN 0 ELSE (c[k - p] \div LIMB^p) % LIMB]
Parts(c) == Add(Add(Part(c, 0), Part(c, 1)), Part(c, 2))
Mul(a, b) == Parts([k \in 1..(Len(a) + Len(b) - 1) |-> Column(a, b, k, 1)])

\* The f64 that is n * 2^q, n being 2^53 at most and q -1074 at least.
Pack(neg, n, q) ==
  IF n = <<>> THEN Zero(neg)
  ELSE IF BitLen(n) + q > F64_MAX_EXP THEN Infinity(neg)
  ELSE F64(neg, Shr(n, TrailingZeros(n)), q + TrailingZeros(n))

\* The f64 nearest to a number x with n * 2^(q - s) <= x < (n + 1) * 2^(q - s):
\* x is above n * 2^(q - s) when sticky; the s lowest bits of n go.
RoundDrop(neg, n, s, sticky, q) ==
  IF Bit(n, s - 1) = 1 /\ (sticky \/ ~LowZero(n, s - 1) \/ Bit(n, s) = 1)
  THEN Pack(neg, Inc(Shr(n, s)), q)
  ELSE Pack(neg, Shr(n, s), q)

\* The same for n * 2^e, to a mantissa whose lowest bit weighs 2^q.
RoundAt(neg, n, e, sticky, q) ==
  IF q <= e THEN Pack(neg, Shl(n, e - q), q) ELSE RoundDrop(neg, n, q - e, sticky, q)

\* The weight of the lowest bit of the f64 mantissa of a number of len bits
\* whose lowest weighs 2^e.
Quantum(len, e) ==
  IF e + len - F64_MANTISSA_DIGITS > F64_DENORM_EXP
  THEN e + len - F64_MANTISSA_DIGITS ELSE F64_DENORM_EXP

\* The f64 nearest to x, n * 2^e <= x < (n + 1) * 2^e.
Round(neg, n, e, sticky) ==
  IF n = <<>> THEN Zero(neg) ELSE RoundAt(neg, n, e, sticky, Quantum(BitLen(n), e))

\* `as f64` of an unsigned integer.
AsF64(x) == Round(FALSE, NatOf(x), 0, FALSE)

\* a * b, of finite numbers.
F64Mul(a, b) ==
  IF a.m = <<>> \/ b.m = <<>> THEN Zero(a.neg # b.neg)
  ELSE Round(a.neg # b.neg, Mul(a.m, b.m), a.e + b.e, FALSE)

\* A digit of a long division: the greatest x with d * x <= r, where d has
\* four digits, the highest LIMB / 2 at least, and r < d * LIMB.  The two
\* highest digits of r over the highest of d give x or up to 2 more.
Estimate(r, d) ==
  IF (Limb(r, 5) * LIMB + Limb(r, 4)) \div d[4] < LIMB
  THEN (Limb(r, 5) * LIMB + Limb(r, 4)) \div d[4] ELSE LIMB - 1
Digit(r, d, est) ==
  CHOOSE x \in {est - 2, est - 1, est} :
    x >= 0 /\ Geq(r, MulSmall(d, x, 0)) /\ ~Geq(r, MulSmall(d, x + 1, 0))

\* Long division of n by d, n < d: k digits of the quotient are still to
\* find, q holds those found and r what is left of n; the next digit is that
\* of r * LIMB.
RECURSIVE DivLoop(_, _, _, _)
DivNext(r, d, q, k, x) == DivLoop(Sub(r, MulSmall(d, x, 0)), d, <<x>> \o q, k - 1)
DivStep(r, d, q, k) == DivNext(r, d, q, k, Digit(r, d, Estimate(r, d)))
DivLoop(r, d, q, k) ==
  IF r = <<>> \/ k = 0 THEN [q |-> Canonical([i \in 1..k |-> 0] \o q), sticky |-> r # <<>>]
  ELSE DivStep(ShlBy(r, 1, 0), d, q, k)

\* a / b, of finite numbers not both 0: the mantissas are brought to 55 and to
\* 56 bits, divided to 56 bits, and the quotient rounded.
DIV_DIGITS == 4
Quotient(neg, dv, e) == Round(neg, dv.q, e, dv.sticky)
F64Div(a, b) ==
  IF a.m = <<>> THEN Zero(a.neg # b.neg)
  ELSE IF b.m = <<>> THEN Infinity(a.neg # b.neg)
  ELSE Quotient(a.neg # b.neg,
                DivLoop(Shl(a.m, LIMB_BITS * DIV_DIGITS - 1 - BitLen(a.m)),
                        Shl(b.m, LIMB_BITS * DIV_DIGITS - BitLen(b.m)), <<>>, DIV_DIGITS),
                (a.e - (LIMB_BITS * DIV_DIGITS - 1 - BitLen(a.m)))
                - (b.e - (LIMB_BITS * DIV_DIGITS - BitLen(b.m)))
                - LIMB_BITS * DIV_DIGITS)

\* The powers of ten from 1e0 to 1e308 as f64, each its mantissa and its
\* exponent (serde_json's table POW10).
POW10 ==
  << <<<<1>>, 0>>, <<<<5>>, 1>>, <<<<25>>, 2>>, <<<<125>>, 3>>,
     <<<<625>>, 4>>, <<<<3125>>, 5>>, <<<<15625>>, 6>>, <<<<12589, 4>>, 7>>,
     <<<<13793, 23>>, 8>>, <<<<3429, 119>>, 9>>, <<<<761, 596>>, 10>>,
     <<<<3805, 2980>>, 11>>, <<<<2641, 14901>>, 12>>,
     <<<<13205, 8969, 4>>, 13>>, <<<<489, 12081, 22>>, 14>>,
     <<<<2445, 11253, 113>>, 15>>, <<<<12225, 7113, 568>>, 16>>,
     <<<<11973, 2800, 2842>>, 17>>, <<<<10713, 14003, 14210>>, 18>>,
     <<<<4413, 4482, 5518, 4>>, 19>>, <<<<5681, 6027, 11207, 21>>, 20>>,
     <<<<12021, 13752, 6884, 108>>, 21>>, <<<<10953, 3227, 1656, 542>>, 22>>,
     <<<<9595, 4034, 10262, 677>>, 25>>, <<<<10093, 14809, 8461, 423>>, 29>>,
     <<<<657, 12448, 12962, 1058>>, 31>>, <<<<821, 7368, 8011, 1323>>, 34>>,
     <<<<513, 2557, 2959, 827>>, 38>>, <<<<4737, 15484, 15986, 1033>>, 41>>,
     <<<<5921, 11163, 7695, 1292>>, 44>>, <<<<1653, 13121, 13001, 807>>, 48>>,
     <<<<11273, 2056, 14270, 504>>, 52>>, <<<<11799, 5141, 2907, 1262>>, 54>>,
     <<<<12903, 8774, 7052, 394>>, 59>>, <<<<15363, 11105, 2494, 1972>>, 60>>,
     <<<<9921, 9614, 4875, 616>>, 65>>, <<<<8419, 15844, 12188, 1540>>, 67>>,
     <<<<10523, 3421, 15236, 1925>>, 70>>,
     <<<<8625, 10330, 11570, 1203>>, 74>>,
     <<<<2589, 4721, 10367, 1504>>, 77>>, <<<<7333, 1805, 12959, 1880>>, 80>>,
     <<<<6631, 7272, 8099, 1175>>, 84>>, <<<<8289, 4994, 6028, 1469>>, 87>>,
     <<<<2169, 6243, 11631, 1836>>, 90>>, <<<<8019, 6607, 16153, 286>>, 96>>,
     <<<<11855, 8326, 7615, 717>>, 98>>, <<<<6627, 6312, 13615, 896>>, 101>>,
     <<<<10263, 13236, 4254, 280>>, 106>>, <<<<2163, 647, 4890, 1401>>, 107>>,
     <<<<14991, 9000, 10208, 1751>>, 110>>,
     <<<<12877, 2812, 6262, 547>>, 115>>, <<<<14327, 10093, 6260, 21>>, 123>>,
     <<<<6099, 1317, 14919, 106>>, 124>>, <<<<14111, 6586, 9059, 534>>, 125>>,
     <<<<9447, 4137, 3132, 668>>, 128>>,
     <<<<15425, 10343, 7830, 1670>>, 130>>,
     <<<<15785, 2368, 798, 1044>>, 134>>, <<<<3347, 11153, 997, 1305>>, 137>>,
     <<<<8279, 1653, 5343, 1631>>, 140>>,
     <<<<14445, 14354, 2582, 2039>>, 143>>,
     <<<<15569, 9410, 10131, 318>>, 149>>,
     <<<<12309, 14286, 1505, 1593>>, 150>>,
     <<<<7195, 5570, 5978, 1991>>, 153>>, <<<<8593, 7577, 9880, 1244>>, 157>>,
     <<<<14837, 9471, 12350, 1555>>, 160>>,
     <<<<15417, 1823, 5671, 972>>, 164>>,
     <<<<15175, 14567, 7088, 1215>>, 167>>,
     <<<<14873, 1825, 4765, 1519>>, 170>>,
     <<<<6303, 6378, 1860, 1899>>, 173>>,
     <<<<10201, 11236, 12066, 296>>, 179>>,
     <<<<1853, 7031, 11181, 1483>>, 180>>,
     <<<<3651, 3221, 10662, 463>>, 185>>, <<<<935, 8053, 2079, 1159>>, 187>>,
     <<<<5265, 5970, 14887, 1448>>, 190>>,
     <<<<14773, 3366, 2225, 1811>>, 193>>,
     <<<<5137, 12344, 15726, 1131>>, 197>>,
     <<<<3211, 3619, 7781, 707>>, 201>>, <<<<16219, 855, 11261, 1768>>, 203>>,
     <<<<16281, 2582, 7038, 1105>>, 207>>,
     <<<<12159, 11420, 12893, 1381>>, 210>>,
     <<<<15199, 1987, 3829, 1727>>, 213>>,
     <<<<7451, 3290, 8537, 1079>>, 217>>,
     <<<<8753, 12296, 11479, 674>>, 221>>,
     <<<<5499, 6165, 12315, 1686>>, 223>>,
     <<<<5485, 1805, 3601, 1054>>, 227>>,
     <<<<1369, 11034, 11826, 164>>, 233>>, <<<<6845, 6018, 9981, 823>>, 234>>,
     <<<<12379, 2904, 6191, 257>>, 239>>,
     <<<<12743, 14523, 14571, 1286>>, 240>>,
     <<<<11833, 14058, 10022, 1608>>, 243>>,
     <<<<6599, 9381, 12528, 2010>>, 246>>,
     <<<<6173, 5863, 11926, 1256>>, 250>>,
     <<<<5001, 16168, 11918, 392>>, 255>>,
     <<<<8621, 15305, 10442, 1963>>, 256>>,
     <<<<8003, 11607, 13407, 306>>, 262>>,
     <<<<7247, 8885, 1502, 1534>>, 263>>,
     <<<<13155, 2914, 10070, 1917>>, 266>>,
     <<<<14351, 15246, 4170, 599>>, 271>>,
     <<<<3109, 5349, 2235, 1498>>, 273>>, <<<<3991, 1295, 5493, 936>>, 277>>,
     <<<<893, 5715, 6866, 1170>>, 280>>,
     <<<<15639, 12025, 12385, 365>>, 285>>,
     <<<<12659, 10977, 12776, 1828>>, 286>>,
     <<<<10461, 2905, 14310, 142>>, 293>>,
     <<<<3153, 14528, 6014, 714>>, 294>>, <<<<3941, 9968, 15710, 892>>, 297>>,
     <<<<4927, 4268, 3254, 1116>>, 300>>,
     <<<<11271, 14955, 10225, 697>>, 304>>, <<<<9993, 6406, 494, 872>>, 307>>,
     <<<<4299, 16200, 617, 1090>>, 310>>, <<<<2687, 3981, 4482, 681>>, 314>>,
     <<<<14909, 9952, 3013, 1703>>, 316>>,
     <<<<4659, 12326, 4013, 532>>, 321>>, <<<<12251, 6448, 6478, 10>>, 330>>,
     <<<<12103, 15859, 16007, 51>>, 331>>,
     <<<<11363, 13762, 14503, 259>>, 332>>,
     <<<<7663, 3277, 6983, 1299>>, 333>>, <<<<13675, 0, 4633, 1624>>, 336>>,
     <<<<709, 4097, 5791, 2030>>, 339>>,
     <<<<10683, 8704, 15907, 1268>>, 343>>,
     <<<<6677, 3392, 1750, 793>>, 347>>, <<<<309, 8481, 12567, 1982>>, 349>>,
     <<<<10433, 11444, 3758, 1239>>, 353>>,
     <<<<13041, 6113, 602, 1549>>, 356>>,
     <<<<4013, 15834, 4848, 1936>>, 359>>,
     <<<<1651, 10666, 8949, 302>>, 365>>,
     <<<<8255, 4178, 11980, 1512>>, 366>>,
     <<<<2127, 5223, 14975, 1890>>, 369>>,
     <<<<3737, 12896, 14919, 590>>, 374>>,
     <<<<4671, 12024, 10457, 738>>, 377>>, <<<<5839, 2742, 4880, 923>>, 380>>,
     <<<<15937, 1713, 1002, 577>>, 384>>,
     <<<<15267, 4284, 10697, 1442>>, 386>>,
     <<<<675, 14651, 13582, 450>>, 391>>, <<<<9879, 3859, 1189, 1127>>, 393>>,
     <<<<8253, 8920, 13774, 1408>>, 396>>,
     <<<<10317, 2958, 834, 1761>>, 399>>, <<<<9363, 9587, 12960, 68>>, 407>>,
     <<<<14047, 15169, 15650, 343>>, 408>>,
     <<<<4699, 10313, 12718, 1719>>, 409>>,
     <<<<13177, 2349, 14093, 1074>>, 413>>,
     <<<<4183, 7033, 9424, 1343>>, 416>>, <<<<9325, 8791, 7684, 1679>>, 419>>,
     <<<<11185, 11613, 6832, 262>>, 425>>,
     <<<<6773, 8916, 1395, 1312>>, 426>>, <<<<12425, 3524, 872, 820>>, 430>>,
     <<<<15531, 4405, 1090, 1025>>, 433>>,
     <<<<11755, 6849, 10921, 640>>, 437>>,
     <<<<1203, 14521, 6825, 400>>, 441>>, <<<<6015, 7069, 1361, 2002>>, 442>>,
     <<<<5807, 14658, 4946, 1251>>, 446>>,
     <<<<15451, 10130, 2087, 1564>>, 449>>,
     <<<<13753, 12475, 9496, 977>>, 453>>,
     <<<<13095, 15594, 15966, 1221>>, 456>>,
     <<<<8177, 11301, 7670, 1527>>, 459>>,
     <<<<14317, 5934, 5492, 1909>>, 462>>, <<<<5309, 2975, 5466, 298>>, 468>>,
     <<<<10161, 14876, 10946, 1491>>, 469>>,
     <<<<12701, 10403, 9587, 1864>>, 472>>,
     <<<<2945, 2227, 11188, 582>>, 477>>,
     <<<<15555, 5567, 11586, 1456>>, 479>>,
     <<<<16125, 11979, 3620, 455>>, 484>>,
     <<<<12207, 7839, 4203, 142>>, 489>>, <<<<11883, 6430, 4633, 711>>, 490>>,
     <<<<3331, 14259, 9039, 444>>, 494>>, <<<<135, 11072, 6215, 1111>>, 496>>,
     <<<<169, 9744, 3673, 1389>>, 499>>, <<<<53, 16357, 2171, 434>>, 504>>,
     <<<<2081, 8175, 5453, 271>>, 508>>,
     <<<<10405, 8107, 10883, 1356>>, 509>>,
     <<<<8911, 6038, 13604, 1695>>, 512>>,
     <<<<1473, 11966, 14646, 1059>>, 516>>,
     <<<<13209, 3382, 7106, 662>>, 520>>, <<<<8319, 12420, 690, 828>>, 523>>,
     <<<<10399, 7333, 863, 1035>>, 526>>,
     <<<<8547, 10727, 14875, 646>>, 530>>,
     <<<<5743, 10520, 2600, 202>>, 535>>,
     <<<<12331, 3449, 13003, 1010>>, 536>>,
     <<<<1563, 108, 12223, 631>>, 540>>, <<<<3907, 8462, 5981, 1579>>, 542>>,
     <<<<7365, 3668, 9037, 493>>, 547>>, <<<<12795, 4340, 7696, 308>>, 551>>,
     <<<<16189, 2712, 13002, 192>>, 555>>,
     <<<<14433, 10745, 15333, 1927>>, 555>>,
     <<<<2877, 8764, 15727, 1204>>, 559>>,
     <<<<13187, 14002, 9010, 376>>, 564>>,
     <<<<399, 4478, 12286, 1882>>, 565>>,
     <<<<12537, 15086, 11774, 1176>>, 569>>,
     <<<<5031, 13621, 14127, 183>>, 575>>, <<<<8771, 2570, 5103, 919>>, 576>>,
     <<<<4789, 12067, 4666, 287>>, 581>>,
     <<<<7561, 11184, 6949, 1436>>, 582>>,
     <<<<9451, 1692, 8687, 1795>>, 585>>,
     <<<<14099, 7201, 3381, 1122>>, 589>>,
     <<<<5335, 13098, 12418, 1402>>, 592>>,
     <<<<14861, 8180, 7331, 1753>>, 595>>,
     <<<<2185, 12671, 16188, 136>>, 602>>,
     <<<<10925, 14203, 15407, 684>>, 603>>,
     <<<<2737, 10933, 5751, 1712>>, 605>>,
     <<<<3759, 12977, 3594, 1070>>, 609>>,
     <<<<12589, 12206, 14534, 668>>, 613>>,
     <<<<15089, 14132, 3568, 1672>>, 615>>,
     <<<<8811, 4416, 9307, 522>>, 620>>, <<<<5507, 712, 9913, 326>>, 624>>,
     <<<<11151, 3561, 413, 1633>>, 625>>, <<<<1651, 8548, 4612, 2041>>, 628>>,
     <<<<13441, 5787, 7784, 159>>, 635>>, <<<<1669, 12555, 6153, 797>>, 636>>,
     <<<<15379, 1702, 5894, 498>>, 640>>, <<<<1379, 15626, 14232, 77>>, 646>>,
     <<<<11195, 1225, 6131, 1557>>, 645>>, <<<<853, 15102, 5879, 973>>, 649>>,
     <<<<12821, 15582, 5722, 608>>, 653>>,
     <<<<15669, 6188, 14307, 1520>>, 655>>,
     <<<<1601, 1820, 8942, 950>>, 659>>, <<<<2001, 10467, 2985, 1188>>, 662>>,
     <<<<15587, 397, 10058, 742>>, 666>>, <<<<14391, 994, 8761, 1856>>, 668>>,
     <<<<13091, 10861, 5475, 1160>>, 672>>,
     <<<<4075, 9481, 6844, 1450>>, 675>>,
     <<<<12787, 14117, 8373, 906>>, 679>>,
     <<<<15591, 3406, 13454, 70>>, 686>>, <<<<12419, 650, 1735, 354>>, 687>>,
     <<<<12943, 3253, 8675, 1770>>, 688>>,
     <<<<10137, 16369, 9517, 1106>>, 692>>,
     <<<<383, 8174, 3705, 1383>>, 695>>, <<<<8671, 14313, 535, 1729>>, 698>>,
     <<<<8011, 11964, 2643, 270>>, 704>>, <<<<3643, 5335, 6609, 675>>, 706>>,
     <<<<8421, 13574, 2082, 422>>, 710>>, <<<<4669, 1168, 5207, 1055>>, 712>>,
     <<<<1459, 3437, 12891, 329>>, 717>>, <<<<7295, 801, 15304, 1648>>, 718>>,
     <<<<14799, 500, 9565, 1030>>, 722>>, <<<<2115, 4722, 3764, 1288>>, 725>>,
     <<<<10901, 5571, 9368, 402>>, 730>>,
     <<<<5353, 11474, 14073, 2012>>, 731>>,
     <<<<7441, 1027, 604, 1258>>, 735>>, <<<<2603, 8834, 4473, 786>>, 739>>,
     <<<<6507, 13893, 11183, 1965>>, 741>>,
     <<<<6115, 14827, 9037, 1228>>, 745>>,
     <<<<9079, 5657, 15112, 383>>, 750>>,
     <<<<12627, 11903, 10025, 1919>>, 751>>,
     <<<<15797, 8515, 15390, 299>>, 757>>,
     <<<<13449, 9811, 11416, 1499>>, 758>>,
     <<<<12715, 12264, 10174, 1874>>, 761>>,
     <<<<7947, 3569, 10455, 1171>>, 765>>,
     <<<<14029, 365, 8973, 1464>>, 768>>,
     <<<<5249, 4553, 11216, 1830>>, 771>>, <<<<14157, 2225, 8374, 71>>, 779>>,
     <<<<5249, 11129, 9102, 357>>, 780>>,
     <<<<4931, 11439, 14564, 893>>, 782>>,
     <<<<12805, 7670, 5575, 279>>, 787>>, <<<<3907, 10938, 9628, 174>>, 791>>,
     <<<<3151, 5539, 15375, 872>>, 792>>,
     <<<<16227, 2827, 2835, 1091>>, 795>>,
     <<<<12239, 16243, 16245, 340>>, 800>>,
     <<<<12043, 15682, 15693, 1704>>, 801>>,
     <<<<11623, 11849, 9808, 1065>>, 805>>,
     <<<<7203, 9447, 13311, 20>>, 814>>, <<<<2801, 2131, 16350, 1664>>, 811>>,
     <<<<16235, 6809, 5109, 520>>, 816>>, <<<<4003, 6304, 3193, 325>>, 820>>,
     <<<<3631, 15137, 15966, 1625>>, 821>>,
     <<<<8635, 10729, 7670, 2032>>, 824>>,
     <<<<15637, 2609, 4794, 1270>>, 828>>,
     <<<<3629, 5727, 15284, 793>>, 832>>, <<<<14391, 2942, 852, 124>>, 838>>,
     <<<<6419, 14714, 4260, 620>>, 839>>, <<<<2027, 12539, 15001, 96>>, 845>>,
     <<<<10135, 13543, 9472, 484>>, 846>>, <<<<761, 1091, 7298, 1211>>, 848>>,
     <<<<7799, 5290, 4724, 189>>, 854>>,
     <<<<12453, 3752, 14475, 1892>>, 854>>, <<<<7783, 297, 855, 1183>>, 858>>,
     <<<<13825, 12659, 13356, 1478>>, 861>>,
     <<<<6593, 16104, 4251, 924>>, 865>>,
     <<<<8241, 16034, 5314, 1155>>, 868>>,
     <<<<2109, 11851, 2547, 1444>>, 871>>,
     <<<<14925, 10717, 3184, 1805>>, 874>>,
     <<<<10951, 6562, 8444, 70>>, 882>>, <<<<5603, 45, 9454, 352>>, 883>>,
     <<<<11631, 226, 14502, 1762>>, 884>>,
     <<<<11365, 12429, 13159, 1101>>, 888>>,
     <<<<1919, 11441, 4161, 1377>>, 891>>,
     <<<<11439, 1006, 12841, 860>>, 895>>,
     <<<<6107, 5354, 16051, 1075>>, 898>>, <<<<7913, 1298, 7984, 672>>, 902>>,
     <<<<1699, 1623, 9980, 840>>, 905>>, <<<<3603, 12795, 11310, 262>>, 910>>,
     <<<<1631, 14824, 7401, 1313>>, 911>>,
     <<<<1019, 3121, 14866, 820>>, 915>>, <<<<10877, 6046, 1099, 513>>, 919>>,
     <<<<9543, 9057, 5463, 160>>, 924>>, <<<<13511, 8655, 5483, 1603>>, 924>>,
     <<<<7743, 13128, 8536, 250>>, 930>>, <<<<5947, 106, 9916, 1252>>, 931>>,
     <<<<7813, 8258, 14389, 782>>, 935>>, <<<<8979, 7209, 4897, 489>>, 939>>,
     <<<<8059, 3686, 7421, 76>>, 945>>, <<<<7527, 2048, 4338, 382>>, 946>>,
     <<<<4867, 10242, 5306, 1911>>, 947>>,
     <<<<11761, 5248, 4730, 597>>, 952>>,
     <<<<14701, 14752, 10008, 746>>, 955>>,
     <<<<2297, 14593, 10779, 116>>, 961>>,
     <<<<11485, 7429, 4747, 583>>, 962>>,
     <<<<4137, 10382, 3676, 1458>>, 964>>,
     <<<<13363, 12977, 12787, 1822>>, 967>>,
     <<<<7749, 12477, 9849, 35>>, 976>> >>

Pow10(k) == F64(FALSE, POW10[k + 1][1], POW10[k + 1][2])

NumOk(f) == [ok |-> TRUE, f |-> f]
NumberOutOfRange == [ok |-> FALSE, f |-> Zero(FALSE)]

\* A product that became infinite is out of range.
Finite(f) == IF f.inf THEN NumberOutOfRange ELSE NumOk(f)

\* f * 10^exponent, a step of at most 308 at a time.
RECURSIVE ScaleBy(_, _)
ScaleBy(f, exponent) ==
  IF exponent \in 0..308 THEN Finite(F64Mul(f, Pow10(exponent)))
  ELSE IF exponent \in -308..-1 THEN NumOk(F64Div(f, Pow10(0 - exponent)))
  ELSE IF f.m = <<>> THEN NumOk(f)
  ELSE IF exponent >= 0 THEN NumberOutOfRange
  ELSE ScaleBy(F64Div(f, Pow10(308)), exponent + 308)

SignedBy(positive, r) ==
  IF r.ok /\ ~positive THEN NumOk([r.f EXCEPT !.neg = TRUE]) ELSE r

\* serde_json's f64_from_parts: the f64 of significand * 10^exponent, the
\* significand a u64.
f64_from_parts(positive, significand, exponent) ==
  SignedBy(positive, ScaleBy(Round(FALSE, significand, 0, FALSE), exponent))

(***************************************************************************)
(* serde_json::Value and serde_json::from_str.                              *)
(* An object is a function from its keys to values (a later duplicate key   *)
(* replaces an earlier one); a number is an integer (a u64, or a negative   *)
(* i64) or the f64 the parser computes from its digits.                     *)
(***************************************************************************)
JNull == [t |-> "null"]
JBool(b) == [t |-> "bool", b |-> b]
JInt(n) == [t |-> "num", int |-> TRUE, n |-> n]
JFloat(f) == [t |-> "num", int |-> FALSE, f |-> f]
JStr(s) == [t |-> "str", s |-> s]
JArr(a) == [t |-> "arr", a |-> a]
JObj(m) == [t |-> "obj", m |-> m]

EmptyMap == [k \in {} |-> JNull]

POk(v, i) == [ok |-> TRUE, v |-> v, i |-> i]
PFail == [ok |-> FALSE, v |-> JNull, i |-> 0]

IsJsonWs(c) == c \in {32, 9, 10, 13}
IsDigit(c) == c >= 48 /\ c <= 57

RECURSIVE SkipWs(_, _)
SkipWs(s, i) == IF i <= Len(s) /\ IsJsonWs(s[i]) THEN SkipWs(s, i + 1) ELSE i

\* The value of the hex digit c, or -1.
HexVal(c) ==
  IF IsDigit(c) THEN c - 48
  ELSE IF c >= 97 /\ c <= 102 THEN c - 87
  ELSE IF c >= 65 /\ c <= 70 THEN c - 55
  ELSE -1

\* The four hex digits at i..i+3 as a number, or -1.
Hex4(s, i) ==
  IF i + 3 > Len(s) \/ \E k \in 0..3 : HexVal(s[i + k]) < 0 THEN -1
  ELSE HexVal(s[i]) * 4096 + HexVal(s[i + 1]) * 256 + HexVal(s[i + 2]) * 16
       + HexVal(s[i + 3])

\* The character a one-letter escape stands for, or -1.
SimpleEscape(e) ==
  CASE e = 34 -> 34 [] e = 92 -> 92 [] e = 47 -> 47 [] e = 98 -> 8
    [] e = 102 -> 12 [] e = 110 -> 10 [] e = 114 -> 13 [] e = 116 -> 9
    [] OTHER -> -1

\* The rest of a string whose opening quote precedes index i; v is the text.
RECURSIVE ParseStr(_, _, _)
ParseStr(s, i, acc) ==
  IF i > Len(s) THEN PFail
  ELSE LET c == s[i] IN
    IF c = 34 THEN POk(acc, i + 1)
    ELSE IF c < 32 THEN PFail
    ELSE IF c # 92 THEN ParseStr(s, i + 1, Append(acc, c))
    ELSE IF i + 1 > Len(s) THEN PFail
    ELSE IF s[i + 1] # 117 THEN
      IF SimpleEscape(s[i + 1]) < 0 THEN PFail
      ELSE ParseStr(s, i + 2, Append(acc, SimpleEscape(s[i + 1])))
    ELSE LET h == Hex4(s, i + 2) IN
      IF h < 0 THEN PFail
      ELSE IF h >= 56320 /\ h <= 57343 THEN PFail
      ELSE IF h >= 55296 /\ h <= 56319 THEN
        IF ~(InRange(s, i + 6, 92, 92) /\ InRange(s, i + 7, 117, 117)) THEN PFail
        ELSE LET l == Hex4(s, i + 8) IN
          IF l < 56320 \/ l > 57343 THEN PFail
          ELSE ParseStr(s, i + 12,
                        Append(acc, 65536 + (h - 55296) * 1024 + (l - 56320)))
      ELSE ParseStr(s, i + 6, Append(acc, h))

\* The index after the run of digits from index i.
DigitsEnd(s, i) ==
  CHOOSE j \in i..(Len(s) + 1) :
    /\ \A k \in i..(j - 1) : IsDigit(s[k])
    /\ ~InRange(s, j, 48, 57)

U64_MAX == <<16383, 16383, 16383, 16383, 255>>
I64_MIN_MAGNITUDE == <<0, 0, 0, 0, 128>>
I32_MAX == 2147483647

\* The value of a number written in digits.
RECURSIVE NatValue(_)
NatValue(n) == IF n = <<>> THEN 0 ELSE n[1] + LIMB * NatValue(Tail(n))

\* The digits from index i taken into the significand, as long as
\* significand * 10 + digit does not exceed u64::MAX: the index reached and
\* the significand.
RECURSIVE Accumulate(_, _, _)
AccumulateNext(s, i, sig, next) ==
  IF Geq(U64_MAX, next) THEN Accumulate(s, i + 1, next) ELSE [i |-> i, sig |-> sig]
Accumulate(s, i, sig) ==
  IF InRange(s, i, 48, 57) THEN AccumulateNext(s, i, sig, MulSmall(sig, 10, s[i] - 48))
  ELSE [i |-> i, sig |-> sig]

\* serde_json's ParserNumber: an integer that fits a u64, a negative one that
\* fits an i64 (sig its magnitude), or a float; i is the index after it.
ParserU64(sig, i) == [ok |-> TRUE, kind |-> "U64", sig |-> sig, f |-> Zero(FALSE), i |-> i]
ParserI64(sig, i) == [ok |-> TRUE, kind |-> "I64", sig |-> sig, f |-> Zero(FALSE), i |-> i]
ParserF64(f, i) == [ok |-> TRUE, kind |-> "F64", sig |-> <<>>, f |-> f, i |-> i]
NumFail == [ok |-> FALSE, kind |-> "", sig |-> <<>>, f |-> Zero(FALSE), i |-> 0]

\* A number as far as it is read: its significand, its decimal exponent, the
\* index reached, and whether it is a float already.
NumParts(sig, exponent, i, float) ==
  [ok |-> TRUE, sig |-> sig, exponent |-> exponent, i |-> i, float |-> float]
NoParts == [ok |-> FALSE, sig |-> <<>>, exponent |-> 0, i |-> 0, float |-> FALSE]

\* parse_integer, the first digit at index i: a zero stands alone; of other
\* digits those that do not fit the u64 count as powers of ten and make the
\* number a float (parse_long_integer).
IntegerDigits(s, a) ==
  IF InRange(s, a.i, 48, 57)
  THEN NumParts(a.sig, DigitsEnd(s, a.i) - a.i, DigitsEnd(s, a.i), TRUE)
  ELSE NumParts(a.sig, 0, a.i, FALSE)
parse_integer(s, i) ==
  IF ~InRange(s, i, 48, 57) THEN NoParts
  ELSE IF s[i] = 48 THEN
    (IF InRange(s, i + 1, 48, 57) THEN NoParts ELSE NumParts(<<>>, 0, i + 1, FALSE))
  ELSE IntegerDigits(s, Accumulate(s, i, <<>>))

\* parse_decimal, when a point follows: the digits of the fraction go into
\* the significand until it would overflow (parse_decimal_overflow drops the
\* rest); there must be one digit at least.
FractionDigits(s, p, a) ==
  IF InRange(s, a.i, 48, 57)
  THEN NumParts(a.sig, p.exponent - (a.i - (p.i + 1)), DigitsEnd(s, a.i), TRUE)
  ELSE IF a.i = p.i + 1 THEN NoParts
  ELSE NumParts(a.sig, p.exponent - (a.i - (p.i + 1)), a.i, TRUE)
parse_decimal(s, p) ==
  IF ~p.ok \/ ~InRange(s, p.i, 46, 46) THEN p
  ELSE FractionDigits(s, p, Accumulate(s, p.i + 1, p.sig))

\* The digits of the exponent from index i on, exp being the value so far.
RECURSIVE ExponentDigits(_, _, _)
ExponentDigits(s, i, exp) ==
  IF ~InRange(s, i, 48, 57) THEN [over |-> FALSE, exp |-> exp, i |-> i]
  ELSE IF exp >= I32_MAX \div 10 /\ (exp > I32_MAX \div 10 \/ s[i] - 48 > I32_MAX % 10)
    THEN [over |-> TRUE, exp |-> exp, i |-> DigitsEnd(s, i)]
  ELSE ExponentDigits(s, i + 1, exp * 10 + (s[i] - 48))

\* i32::saturating_add and saturating_sub of an exponent that is not negative.
saturating_add(a, exp) == IF a > 0 /\ exp > I32_MAX - a THEN I32_MAX ELSE a + exp
saturating_sub(a, exp) == IF a < 0 /\ exp > a + I32_MAX + 1 THEN (0 - I32_MAX) - 1 ELSE a - exp

\* parse_exponent, when the letter e follows: a sign, one digit at least.  An
\* exponent beyond i32 (parse_exponent_overflow) is an error when it is
\* positive and the significand is not 0, and makes the number 0 otherwise.
ExponentRead(p, positive_exp, ex) ==
  IF ex.over THEN (IF p.sig # <<>> /\ positive_exp THEN NoParts
                   ELSE NumParts(<<>>, 0, ex.i, TRUE))
  ELSE NumParts(p.sig,
                IF positive_exp THEN saturating_add(p.exponent, ex.exp)
                ELSE saturating_sub(p.exponent, ex.exp),
                ex.i, TRUE)
ExponentAt(s, p, i, positive_exp) ==
  IF ~InRange(s, i, 48, 57) THEN NoParts
  ELSE ExponentRead(p, positive_exp, ExponentDigits(s, i, 0))
parse_exponent(s, p) ==
  IF ~p.ok \/ ~(InRange(s, p.i, 101, 101) \/ InRange(s, p.i, 69, 69)) THEN p
  ELSE ExponentAt(s, p,
                  IF InRange(s, p.i + 1, 43, 43) \/ InRange(s, p.i + 1, 45, 45)
                  THEN p.i + 2 ELSE p.i + 1,
                  ~InRange(s, p.i + 1, 45, 45))

\* A float read up to index i, or the error of f64_from_parts.
Float(r, i) == IF r.ok THEN ParserF64(r.f, i) ELSE NumFail

\* The number read: a float by f64_from_parts; an integer with a minus sign
\* is an i64, unless it is -0 or below i64::MIN, which are floats
\* (parse_number).
ParserNumber(positive, p) ==
  IF ~p.ok THEN NumFail
  ELSE IF p.float THEN Float(f64_from_parts(positive, p.sig, p.exponent), p.i)
  ELSE IF positive THEN ParserU64(p.sig, p.i)
  ELSE IF p.sig = <<>> \/ ~Geq(I64_MIN_MAGNITUDE, p.sig)
    THEN ParserF64(Round(TRUE, p.sig, 0, FALSE), p.i)
  ELSE ParserI64(p.sig, p.i)

\* parse_any_number behind the peek of deserialize_any and of
\* deserialize_f64: a minus sign or a digit stands at index i.
parse_any_number(s, i) ==
  ParserNumber(s[i] # 45,
               parse_exponent(s, parse_decimal(s,
                 parse_integer(s, IF s[i] = 45 THEN i + 1 ELSE i))))

\* The number as serde_json::Value holds it (visit_u64, visit_i64, visit_f64
\* of the Value visitor).
NumberValue(n) ==
  IF ~n.ok THEN PFail
  ELSE IF n.kind = "U64" THEN POk(JInt(NatValue(n.sig)), n.i)
  ELSE IF n.kind = "I64" THEN POk(JInt(0 - NatValue(n.sig)), n.i)
  ELSE POk(JFloat(n.f), n.i)

\* A number from index i, where a minus sign or a digit stands.
ParseNum(s, i) == NumberValue(parse_any_number(s, i))

\* The number as an f64 field holds it: an integer is converted (as f64).
NumberF64(n) == IF n.kind = "F64" THEN n.f ELSE Round(n.kind = "I64", n.sig, 0, FALSE)

\* Whether the text from index i starts with the word w.
StartsWith(s, i, w) ==
  i + Len(w) - 1 <= Len(s) /\ SubSeq(s, i, i + Len(w) - 1) = w

\* serde_json refuses a value nested this deep: the Deserializer starts with
\* remaining_depth 128, every array and object it enters takes one, and the
\* one that brings it to 0 is an error (check_recursion), be it empty or not.
RECURSION_LIMIT == 128

RECURSIVE ParseValue(_, _, _)
RECURSIVE ParseArrItems(_, _, _, _)
RECURSIVE ParseObjItems(_, _, _, _)

\* The elements of an array from index i, after "[" or ",": r is the
\* element read, acc those before it.
ArrItemsAfter(s, acc, remaining_depth, r) ==
  IF ~r.ok THEN PFail
  ELSE IF InRange(s, SkipWs(s, r.i), 44, 44)
    THEN ParseArrItems(s, SkipWs(s, r.i) + 1, Append(acc, r.v), remaining_depth)
  ELSE IF InRange(s, SkipWs(s, r.i), 93, 93)
    THEN POk(JArr(Append(acc, r.v)), SkipWs(s, r.i) + 1)
  ELSE PFail
ParseArrItems(s, i, acc, remaining_depth) ==
  ArrItemsAfter(s, acc, remaining_depth, ParseValue(s, i, remaining_depth))

\* The members of an object from index i, after "{" or ",": k is the key
\* read, r its value, m the members before it.
ObjItemsAfter(s, m, remaining_depth, key, r) ==
  IF ~r.ok THEN PFail
  ELSE IF InRange(s, SkipWs(s, r.i), 44, 44)
    THEN ParseObjItems(s, SkipWs(s, r.i) + 1, (key :> r.v) @@ m, remaining_depth)
  ELSE IF InRange(s, SkipWs(s, r.i), 125, 125)
    THEN POk(JObj((key :> r.v) @@ m), SkipWs(s, r.i) + 1)
  ELSE PFail
ObjItemValue(s, m, remaining_depth, k) ==
  IF ~k.ok \/ ~InRange(s, SkipWs(s, k.i), 58, 58) THEN PFail
  ELSE ObjItemsAfter(s, m, remaining_depth, k.v,
                     ParseValue(s, SkipWs(s, k.i) + 1, remaining_depth))
ParseObjItems(s, i, m, remaining_depth) ==
  IF ~InRange(s, SkipWs(s, i), 34, 34) THEN PFail
  ELSE ObjItemValue(s, m, remaining_depth, ParseStr(s, SkipWs(s, i) + 1, <<>>))

StrValue(r) == IF r.ok THEN POk(JStr(r.v), r.i) ELSE PFail

\* The value whose first character stands at index i.
ParseValueAt(s, i, remaining_depth) ==
  IF i > Len(s) THEN PFail
  ELSE IF s[i] = 110 THEN (IF StartsWith(s, i, <<110, 117, 108, 108>>)
                           THEN POk(JNull, i + 4) ELSE PFail)
  ELSE IF s[i] = 116 THEN (IF StartsWith(s, i, <<116, 114, 117, 101>>)
                           THEN POk(JBool(TRUE), i + 4) ELSE PFail)
  ELSE IF s[i] = 102 THEN (IF StartsWith(s, i, <<102, 97, 108, 115, 101>>)
                           THEN POk(JBool(FALSE), i + 5) ELSE PFail)
  ELSE IF s[i] = 34 THEN StrValue(ParseStr(s, i + 1, <<>>))
  ELSE IF s[i] = 45 \/ IsDigit(s[i]) THEN ParseNum(s, i)
  ELSE IF s[i] = 91 THEN
    (IF remaining_depth - 1 = 0 THEN PFail
     ELSE IF InRange(s, SkipWs(s, i + 1), 93, 93) THEN POk(JArr(<<>>), SkipWs(s, i + 1) + 1)
     ELSE ParseArrItems(s, i + 1, <<>>, remaining_depth - 1))
  ELSE IF s[i] = 123 THEN
    (IF remaining_depth - 1 = 0 THEN PFail
     ELSE IF InRange(s, SkipWs(s, i + 1), 125, 125)
       THEN POk(JObj(EmptyMap), SkipWs(s, i + 1) + 1)
     ELSE ParseObjItems(s, i + 1, EmptyMap, remaining_depth - 1))
  ELSE PFail

\* One value from index i on; remaining_depth is what is left of the
\* recursion limit where the value stands.
ParseValue(s, i, remaining_depth) == ParseValueAt(s, SkipWs(s, i), remaining_depth)

\* Deserializer::end: after the value nothing but whitespace.
Ended(s, r) ==
  IF r.ok /\ SkipWs(s, r.i) = Len(s) + 1 THEN [ok |-> TRUE, v |-> r.v]
  ELSE [ok |-> FALSE, v |-> JNull]

\* serde_json::from_str::<Value>: one value, then nothing but whitespace.
from_str(s) == Ended(s, ParseValue(s, 1, RECURSION_LIMIT))

\* serde_json::from_slice::<Value>, which Response::json applies to the body:
\* bytes that are not UTF-8 are an error.
from_slice(bytes) ==
  IF Utf8Valid(bytes) THEN from_str(from_utf8_lossy(bytes))
  ELSE [ok |-> FALSE, v |-> JNull]

(***************************************************************************)
(* Response::json::<T>() for a struct T: serde_json::from_slice reads the   *)
(* bytes of the body with the reader serde derives for T.  A member of an   *)
(* object that T does not name is passed over by ignore_value, which checks *)
(* its syntax only: neither the numbers' range, nor the strings' UTF-8 and  *)
(* surrogates, nor the depth.  A reader gives the index after what it read, *)
(* or 0.                                                                    *)
(***************************************************************************)
IsExponentLetter(b, i) == InRange(b, i, 101, 101) \/ InRange(b, i, 69, 69)

\* ignore_exponent, the letter e at index i.
ignore_exponent(b, i) ==
  IF InRange(b, i + 1, 43, 43) \/ InRange(b, i + 1, 45, 45)
  THEN (IF InRange(b, i + 2, 48, 57) THEN DigitsEnd(b, i + 2) ELSE 0)
  ELSE (IF InRange(b, i + 1, 48, 57) THEN DigitsEnd(b, i + 1) ELSE 0)

IgnoreExponentAt(b, i) == IF IsExponentLetter(b, i) THEN ignore_exponent(b, i) ELSE i

\* ignore_decimal, the point at index i.
ignore_decimal(b, i) ==
  IF InRange(b, i + 1, 48, 57) THEN IgnoreExponentAt(b, DigitsEnd(b, i + 1)) ELSE 0

IgnoreFractionAt(b, i) ==
  IF InRange(b, i, 46, 46) THEN ignore_decimal(b, i) ELSE IgnoreExponentAt(b, i)

\* ignore_integer, the first digit at index i.
ignore_integer(b, i) ==
  IF ~InRange(b, i, 48, 57) THEN 0
  ELSE IF b[i] = 48 THEN (IF InRange(b, i + 1, 48, 57) THEN 0 ELSE IgnoreFractionAt(b, i + 1))
  ELSE IgnoreFractionAt(b, DigitsEnd(b, i))

\* How many backslashes stand right before index k, from index i on.
Backslashes(b, i, k) ==
  k - (CHOOSE j \in i..k : /\ \A m \in j..(k - 1) : b[m] = 92
                           /\ (j = i \/ b[j - 1] # 92))

\* Whether the byte at index k is not escaped, in a string that starts at i.
Unescaped(b, i, k) == Backslashes(b, i, k) % 2 = 0

\* ignore_escape, the backslash at index k: a letter of an escape, and four
\* hex digits after \u (which surrogate they name is not looked at).
ignore_escape(b, k) ==
  /\ k + 1 <= Len(b)
  /\ SimpleEscape(b[k + 1]) >= 0 \/ (b[k + 1] = 117 /\ Hex4(b, k + 2) >= 0)

\* The closing quote of the string that starts at index i, or 0.
ClosingQuote(b, i) ==
  IF \E k \in i..Len(b) : b[k] = 34 /\ Unescaped(b, i, k)
  THEN CHOOSE k \in i..Len(b) :
         /\ b[k] = 34 /\ Unescaped(b, i, k)
         /\ \A j \in i..(k - 1) : ~(b[j] = 34 /\ Unescaped(b, i, j))
  ELSE 0

\* ignore_str, after the opening quote: no control character, every escape
\* well formed.
IgnoreStrTo(b, i, end) ==
  IF end = 0 THEN 0
  ELSE IF \A k \in i..(end - 1) :
            b[k] >= 32 /\ (b[k] = 92 /\ Unescaped(b, i, k) => ignore_escape(b, k))
    THEN end + 1
  ELSE 0
ignore_str(b, i) == IgnoreStrTo(b, i, ClosingQuote(b, i))

\* SliceRead::parse_str, after the opening quote: the string's text, its
\* escapes decoded and its bytes valid UTF-8.
StrRead(r, end) == IF r.ok THEN POk(r.v, end) ELSE PFail
ParseStrTo(b, i, end) ==
  IF end = 0 \/ ~Utf8Valid(SubSeq(b, i, end - 2)) THEN PFail
  ELSE StrRead(ParseStr(from_utf8_lossy(SubSeq(b, i, end - 1)), 1, <<>>), end)
parse_str(b, i) == ParseStrTo(b, i, ignore_str(b, i))

RECURSIVE ignore_value(_, _)
RECURSIVE IgnoreElements(_, _)
RECURSIVE IgnoreMembers(_, _)

\* After an element or a member that ends before index e: a comma and the
\* next one, or the closing bracket.
IgnoreElementsAfter(b, e) ==
  IF e = 0 THEN 0
  ELSE IF InRange(b, SkipWs(b, e), 44, 44) THEN IgnoreElements(b, SkipWs(b, e) + 1)
  ELSE IF InRange(b, SkipWs(b, e), 93, 93) THEN SkipWs(b, e) + 1
  ELSE 0
IgnoreMembersAfter(b, e) ==
  IF e = 0 THEN 0
  ELSE IF InRange(b, SkipWs(b, e), 44, 44) THEN IgnoreMembers(b, SkipWs(b, e) + 1)
  ELSE IF InRange(b, SkipWs(b, e), 125, 125) THEN SkipWs(b, e) + 1
  ELSE 0

\* The elements of an array from index i, after "[" or ",".
IgnoreElements(b, i) == IgnoreElementsAfter(b, ignore_value(b, i))

\* The value of a member whose key ends before index e.
IgnoreMemberValue(b, e) ==
  IF e = 0 \/ ~InRange(b, SkipWs(b, e), 58, 58) THEN 0
  ELSE IgnoreMembersAfter(b, ignore_value(b, SkipWs(b, e) + 1))

\* The members of an object from index i, after "{" or ",".
IgnoreMembers(b, i) ==
  IF ~InRange(b, SkipWs(b, i), 34, 34) THEN 0
  ELSE IgnoreMemberValue(b, ignore_str(b, SkipWs(b, i) + 1))

\* ignore_value from the value's first byte, at index i.
IgnoreValueAt(b, i) ==
  IF i > Len(b) THEN 0
  ELSE IF b[i] = 110 THEN (IF StartsWith(b, i, <<110, 117, 108, 108>>) THEN i + 4 ELSE 0)
  ELSE IF b[i] = 116 THEN (IF StartsWith(b, i, <<116, 114, 117, 101>>) THEN i + 4 ELSE 0)
  ELSE IF b[i] = 102 THEN (IF StartsWith(b, i, <<102, 97, 108, 115, 101>>) THEN i + 5 ELSE 0)
  ELSE IF b[i] = 45 THEN ignore_integer(b, i + 1)
  ELSE IF IsDigit(b[i]) THEN ignore_integer(b, i)
  ELSE IF b[i] = 34 THEN ignore_str(b, i + 1)
  ELSE IF b[i] = 91 THEN
    (IF InRange(b, SkipWs(b, i + 1), 93, 93) THEN SkipWs(b, i + 1) + 1
     ELSE IgnoreElements(b, i + 1))
  ELSE IF b[i] = 123 THEN
    (IF InRange(b, SkipWs(b, i + 1), 125, 125) THEN SkipWs(b, i + 1) + 1
     ELSE IgnoreMembers(b, i + 1))
  ELSE 0
ignore_value(b, i) == IgnoreValueAt(b, SkipWs(b, i))

\* The types the commands read: a String, a Vec<f64>, and a struct of named
\* fields, each of a type.
StringType == [kind |-> "String", fields |-> <<>>]
VecF64Type == [kind |-> "Vec<f64>", fields |-> <<>>]
StructType(fields) == [kind |-> "struct", fields |-> fields]
FieldType(name, ty) == [name |-> name, ty |-> ty]
FieldNames(ty) == {ty.fields[k].name : k \in DOMAIN ty.fields}
FieldNamed(ty, name) == ty.fields[CHOOSE k \in DOMAIN ty.fields : ty.fields[k].name = name]

\* The elements of a Vec<f64> from index i, after "[" or ",": deserialize_f64
\* takes a number and nothing else, an integer converted to f64.
RECURSIVE VecElements(_, _, _)
VecElementsAfter(b, n, acc) ==
  IF ~n.ok THEN PFail
  ELSE IF InRange(b, SkipWs(b, n.i), 44, 44)
    THEN VecElements(b, SkipWs(b, n.i) + 1, Append(acc, NumberF64(n)))
  ELSE IF InRange(b, SkipWs(b, n.i), 93, 93)
    THEN POk(Append(acc, NumberF64(n)), SkipWs(b, n.i) + 1)
  ELSE PFail
VecElementAt(b, i, acc) ==
  IF InRange(b, i, 45, 45) \/ InRange(b, i, 48, 57)
  THEN VecElementsAfter(b, parse_any_number(b, i), acc)
  ELSE PFail
VecElements(b, i, acc) == VecElementAt(b, SkipWs(b, i), acc)

RECURSIVE DeserializeAt(_, _, _)
RECURSIVE StructElements(_, _, _, _)
RECURSIVE StructMembers(_, _, _, _)

\* T::deserialize for the type ty, the value from index i on.
Deserialize(b, i, ty) == DeserializeAt(b, SkipWs(b, i), ty)

\* visit_seq of a struct: its fields in order, as many elements as fields.
StructElementsAfter(b, ty, acc, r) ==
  IF ~r.ok THEN PFail
  ELSE IF Len(acc) + 1 = Len(ty.fields) THEN
    (IF InRange(b, SkipWs(b, r.i), 93, 93)
     THEN POk([n \in FieldNames(ty) |->
                 Append(acc, r.v)[CHOOSE k \in DOMAIN ty.fields : ty.fields[k].name = n]],
              SkipWs(b, r.i) + 1)
     ELSE PFail)
  ELSE IF InRange(b, SkipWs(b, r.i), 44, 44)
    THEN StructElements(b, SkipWs(b, r.i) + 1, ty, Append(acc, r.v))
  ELSE PFail
StructElements(b, i, ty, acc) ==
  StructElementsAfter(b, ty, acc, Deserialize(b, i, ty.fields[Len(acc) + 1].ty))

\* visit_map of a struct: a field may come once and must come; any other
\* member is ignored.  m holds the fields read so far.
StructMembersAfter(b, e, ty, m) ==
  IF InRange(b, SkipWs(b, e), 44, 44) THEN StructMembers(b, SkipWs(b, e) + 1, ty, m)
  ELSE IF InRange(b, SkipWs(b, e), 125, 125) /\ DOMAIN m = FieldNames(ty)
    THEN POk(m, SkipWs(b, e) + 1)
  ELSE PFail
StructFieldRead(b, ty, m, key, r) ==
  IF ~r.ok THEN PFail ELSE StructMembersAfter(b, r.i, ty, (key :> r.v) @@ m)
StructIgnored(b, e, ty, m) ==
  IF e = 0 THEN PFail ELSE StructMembersAfter(b, e, ty, m)
StructMemberValue(b, ty, m, k) ==
  IF ~k.ok \/ ~InRange(b, SkipWs(b, k.i), 58, 58) THEN PFail
  ELSE IF k.v \in DOMAIN m THEN PFail
  ELSE IF k.v \in FieldNames(ty)
    THEN StructFieldRead(b, ty, m, k.v,
                         Deserialize(b, SkipWs(b, k.i) + 1, FieldNamed(ty, k.v).ty))
  ELSE StructIgnored(b, ignore_value(b, SkipWs(b, k.i) + 1), ty, m)
StructMembers(b, i, ty, m) ==
  IF ~InRange(b, SkipWs(b, i), 34, 34) THEN PFail
  ELSE StructMemberValue(b, ty, m, parse_str(b, SkipWs(b, i) + 1))

DeserializeAt(b, i, ty) ==
  IF ty.kind = "String" THEN
    (IF InRange(b, i, 34, 34) THEN parse_str(b, i + 1) ELSE PFail)
  ELSE IF ty.kind = "Vec<f64>" THEN
    (IF ~InRange(b, i, 91, 91) THEN PFail
     ELSE IF InRange(b, SkipWs(b, i + 1), 93, 93) THEN POk(<<>>, SkipWs(b, i + 1) + 1)
     ELSE VecElements(b, i + 1, <<>>))
  ELSE IF InRange(b, i, 91, 91) THEN StructElements(b, i + 1, ty, <<>>)
  ELSE IF InRange(b, i, 123, 123) THEN
    (IF InRange(b, SkipWs(b, i + 1), 125, 125) THEN PFail
     ELSE StructMembers(b, i + 1, ty, EmptyMap))
  ELSE PFail

\* serde_json::from_slice::<T>: one value of the type, then nothing but
\* whitespace.
from_slice_as(bytes, ty) == Ended(bytes, Deserialize(bytes, 1, ty))

(***************************************************************************)
(* The accessors of serde_json::Value the commands use.  An absent result   *)
(* (None) is <<>>, a present one (Some(x)) is <<x>>.                        *)
(***************************************************************************)
None == <<>>
Some(x) == <<x>>

\* Value::get(key): the member of an object.
Get(v, key) ==
  IF v.t = "obj" /\ key \in DOMAIN v.m THEN Some(v.m[key]) ELSE None

as_str(v) == IF v.t = "str" THEN Some(v.s) ELSE None
as_bool(v) == IF v.t = "bool" THEN Some(v.b) ELSE None
as_u64(v) == IF v.t = "num" /\ v.int /\ v.n >= 0 THEN Some(v.n) ELSE None
as_array(v) == IF v.t = "arr" THEN Some(v.a) ELSE None

\* Option::and_then with each of the accessors.
and_then_get(o, key) == IF o = None THEN None ELSE Get(o[1], key)
and_then_as_str(o) == IF o = None THEN None ELSE as_str(o[1])
and_then_as_bool(o) == IF o = None THEN None ELSE as_bool(o[1])
and_then_as_u64(o) == IF o = None THEN None ELSE as_u64(o[1])

\* Index by key, data["models"]: Null when absent or not an object.
Index(v, key) == IF Get(v, key) = None THEN JNull ELSE Get(v, key)[1]

unwrap_or(o, d) == IF o = None THEN d ELSE o[1]

(***************************************************************************)
(* The state: one invocation of a command (cmd), where it stands (pc) and   *)
(* what it returned (result), the server's behaviour for that invocation,   *)
(* and what the invocation did.                                             *)
(***************************************************************************)
VARIABLES
  cmd,         \* the command invoked
  pc,          \* where the invocation stands; "returned" when it is over
  result,      \* NoResult, or the Result the command returned
  srvVersion,  \* outcome of GET /api/version
  srvTags,     \* outcome of GET /api/tags
  requests,    \* the endpoints requested so far, in order
  srvResp,     \* outcome of the POST that opens a stream
  net,         \* the bytes the server sends on the stream
  pos,         \* how many of them the stream has delivered
  buffer,      \* the decoder's buffer (text)
  emitted,     \* the events emitted on the window, in order
  decoded,     \* the records parsed from complete lines, in order
  os,          \* the platform the program is built for (cfg target_os)
  args,        \* the arguments the command was invoked with
  request,     \* None, or the JSON body of the chat request sent
  trace,       \* the processes run and the files touched so far, in order
  local,       \* the local variables of the launcher or the installer
  fs,          \* the paths that exist in the file system
  zipBody,     \* the release archive the download server holds
  undelivered, \* which emissions of the call fail, by their rank among them
  alone,       \* the decoder of the same call, fed the same chunks, had it
               \* run by itself with every emission delivered
  other,       \* NoCall, or a second streaming call that runs concurrently
  window,      \* the main window: "open", "closing" or "closed"
  closer       \* NoCloser, or the terminator the close handler runs

vars == <<cmd, pc, result, srvVersion, srvTags, requests,
          srvResp, net, pos, buffer, emitted, decoded,
          os, args, request, trace, local, fs, zipBody,
          undelivered, alone, other, window, closer>>

probeVars == <<srvVersion, srvTags, requests>>
streamVars == <<srvResp, net, pos, buffer, emitted, decoded, alone>>
hostVars == <<undelivered, other, window, closer>>
extVars == <<os, args, request, trace, local, fs, zipBody, hostVars>>

NoResult == [kind |-> "none"]
\* A command without arguments, a handler without live locals, no archive.
NoArgs == [none |-> TRUE]
NoLocals == [none |-> TRUE]
NoBody == [none |-> TRUE]
NoCall == [none |-> TRUE]
Ok(v) == [kind |-> "Ok", value |-> v]

\* An HTTP exchange that failed in transport (connection refused, timeout).
TransportErr == [err |-> TRUE]
\* An HTTP response with a status code.
Response(code) == [err |-> FALSE, status |-> code]

\* StatusCode::is_success
is_success(code) == code >= 200 /\ code <= 299

(***************************************************************************)
(* Text the model needs, as code points.                                    *)
(***************************************************************************)
K_models == <<109, 111, 100, 101, 108, 115>>
K_name == <<110, 97, 109, 101>>
K_message == <<109, 101, 115, 115, 97, 103, 101>>
K_content == <<99, 111, 110, 116, 101, 110, 116>>
K_done == <<100, 111, 110, 101>>
K_error == <<101, 114, 114, 111, 114>>
K_status == <<115, 116, 97, 116, 117, 115>>
K_total == <<116, 111, 116, 97, 108>>
K_completed == <<99, 111, 109, 112, 108, 101, 116, 101, 100>>
T_true == <<116, 114, 117, 101>>
T_null == <<110, 117, 108, 108>>

\* JSON text a server writes: a quoted string, an object of one or two members.
Quoted(s) == <<34>> \o s \o <<34>>
Member(k, v) == Quoted(k) \o <<58>> \o v

RECURSIVE JoinComma(_)
JoinComma(ss) ==
  IF ss = <<>> THEN <<>>
  ELSE IF Len(ss) = 1 THEN ss[1]
  ELSE ss[1] \o <<44>> \o JoinComma(Tail(ss))

Obj(members) == <<123>> \o JoinComma(members) \o <<125>>
Obj1(k, v) == Obj(<<Member(k, v)>>)

\* All sequences over S of length at most n.
SeqUpTo(S, n) == UNION {[1..k -> S] : k \in 0..n}

RECURSIVE Concat(_)
Concat(ss) == IF ss = <<>> THEN <<>> ELSE Head(ss) \o Concat(Tail(ss))

(***************************************************************************)
(* The options of a chat request.                                           *)
(* A number is a fraction num/den.  An f32 is the fraction it holds exactly *)
(* (at most 24 significant bits over a power of two); json! widens an f32   *)
(* to f64 (Number::from_f32), which keeps that value, and the body is       *)
(* printed with the shortest text that reads back as the same f64.  An f64  *)
(* literal such as 1.1 is printed as written.                               *)
(***************************************************************************)
Frac(n, d) == [num |-> n, den |-> d]

\* Whether two fractions are the same number.
FracEq(a, b) == a.num * b.den = b.num * a.den

RECURSIVE Pow2(_)
Pow2(k) == IF k = 0 THEN 1 ELSE 2 * Pow2(k - 1)

\* The magnitude of a number.
Abs(q) == IF q.num < 0 THEN Frac(0 - q.num, q.den) ELSE q

\* The scale of the mantissa of q, a number that is not 0, searched from e
\* on: the e with 2^23 <= |q| * 2^e < 2^24.  It is negative from 2^24 on,
\* where the f32 drops low bits.
RECURSIVE F32Scale(_, _)
F32Scale(q, e) ==
  IF e <= 0 /\ Abs(q).num \div (q.den * Pow2(0 - e)) >= Pow2(24) THEN F32Scale(q, e - 1)
  ELSE IF e >= 0 /\ Abs(q).num * Pow2(e) < Pow2(23) * q.den THEN F32Scale(q, e + 1)
  ELSE e

\* A dyadic fraction in lowest terms.
RECURSIVE Reduce(_, _)
Reduce(m, e) ==
  IF e > 0 /\ m % 2 = 0 THEN Reduce(m \div 2, e - 1) ELSE Frac(m, Pow2(e))

\* The mantissa m at scale e, with what is left of the number (r out of d)
\* rounded to nearest, ties to even.
RoundedMantissa(m, r, d) ==
  IF 2 * r > d \/ (2 * r = d /\ m % 2 = 1) THEN m + 1 ELSE m

\* The f32 of a positive number at the scale e of its mantissa.
F32At(q, e) ==
  IF e >= 0
  THEN Reduce(RoundedMantissa((q.num * Pow2(e)) \div q.den,
                              (q.num * Pow2(e)) % q.den, q.den), e)
  ELSE Frac(RoundedMantissa(q.num \div (q.den * Pow2(0 - e)),
                            q.num % (q.den * Pow2(0 - e)),
                            q.den * Pow2(0 - e)) * Pow2(0 - e), 1)

Negated(q) == Frac(0 - q.num, q.den)

\* `as f32` of the number a caller gave: round to nearest, ties to even, on
\* a 24-bit mantissa.  The caller's number reaches the command as an f64,
\* or as a u64 or i64 when it is written as an integer; for a fraction whose
\* denominator is below 2^27 the f64 lies on the same side of every f32
\* midpoint as the number, so rounding the number is rounding the f64.  A
\* number of the model is below 2^31 in magnitude and at least 2^-31 when
\* it is not 0: the f32 is neither infinite nor subnormal.
ToF32(q) ==
  IF q.num = 0 THEN Frac(0, 1)
  ELSE IF q.num < 0 THEN Negated(F32At(Abs(q), F32Scale(q, 0)))
  ELSE F32At(q, F32Scale(q, 0))

\* An Option<f32> parameter as the command receives it from the caller's
\* JSON number.
ParamF32(o) == IF o = None THEN None ELSE Some(ToF32(o[1]))

DEFAULT_TEMPERATURE == Frac(2, 10)
DEFAULT_TOP_P == Frac(9, 10)
DEFAULT_NUM_PREDICT == 4096
NUM_CTX == 16384
REPEAT_PENALTY == Frac(11, 10)
REPEAT_LAST_N == 64

\* Mutant of ChatOptions: num_predict falls back to its default unless the
\* temperature is supplied too.
ChatOptions_AllOrNothing(a) ==
  [temperature |-> unwrap_or(ParamF32(a.temperature), ToF32(DEFAULT_TEMPERATURE)),
   num_predict |-> IF a.temperature = None THEN DEFAULT_NUM_PREDICT
                   ELSE unwrap_or(a.max_tokens, DEFAULT_NUM_PREDICT),
   top_p |-> unwrap_or(ParamF32(a.top_p), ToF32(DEFAULT_TOP_P)),
   repeat_penalty |-> REPEAT_PENALTY,
   repeat_last_n |-> REPEAT_LAST_N]

\* The "options" object of ollama_chat.
ChatOptions(a) ==
  [temperature |-> unwrap_or(ParamF32(a.temperature), ToF32(DEFAULT_TEMPERATURE)),
   num_predict |-> unwrap_or(a.max_tokens, DEFAULT_NUM_PREDICT),
   top_p |-> unwrap_or(ParamF32(a.top_p), ToF32(DEFAULT_TOP_P)),
   repeat_penalty |-> REPEAT_PENALTY,
   repeat_last_n |-> REPEAT_LAST_N]

\* The "options" object of ollama_chat_stream: the same members, and the
\* context size.
ChatStreamOptions(a) ==
  [temperature |-> unwrap_or(ParamF32(a.temperature), ToF32(DEFAULT_TEMPERATURE)),
   num_predict |-> unwrap_or(a.max_tokens, DEFAULT_NUM_PREDICT),
   num_ctx |-> NUM_CTX,
   top_p |-> unwrap_or(ParamF32(a.top_p), ToF32(DEFAULT_TOP_P)),
   repeat_penalty |-> REPEAT_PENALTY,
   repeat_last_n |-> REPEAT_LAST_N]

\* The body of ollama_chat's request.
ChatBody(a) ==
  [model |-> a.model, messages |-> a.messages, stream |-> FALSE,
   options |-> ChatOptions(a)]

\* The body of ollama_chat_stream's request.
ChatStreamBody(a) ==
  [model |-> a.model, messages |-> a.messages, stream |-> TRUE,
   options |-> ChatStreamOptions(a)]

(***************************************************************************)
(* The NDJSON decoder loop of ollama_chat_stream and download_ollama_model. *)
(***************************************************************************)
Err(msg) == [kind |-> "Err", msg |-> msg]
\* format!("<msg>{}", text)
ErrText(msg, text) == [kind |-> "Err", msg |-> msg, text |-> text]
\* format!("<msg>{}", response.status())
ErrStatus(msg, code) == [kind |-> "Err", msg |-> msg, status |-> code]

T_unknown_error == <<85, 110, 107, 110, 111, 119, 110, 32, 101, 114, 114, 111, 114>>

\* buffer.find('\n'): the 1-based index of the first c in s, 0 when there is none.
find(s, c) ==
  IF \E i \in DOMAIN s : s[i] = c
  THEN CHOOSE i \in DOMAIN s : s[i] = c /\ \A j \in 1..(i - 1) : s[j] # c
  ELSE 0

\* What a decoder loop works on: its buffer, the events emitted and records
\* parsed so far, and the error it returned with (NoResult while it runs).
Decoder(b, e, d, r) == [buffer |-> b, emitted |-> e, decoded |-> d, result |-> r]

\* let mut buffer = String::new(): the decoder a call starts with.
NewDecoder == Decoder(<<>>, <<>>, <<>>, NoResult)

StreamChunk(content, done) ==
  [event |-> "ollama_stream_chunk", content |-> content, done |-> done]

\* A variant that looks at the error field first: a record with an error
\* fails the call and its content is not emitted.
ChatRecord_ErrorFirst(data, st) ==
  LET content == and_then_as_str(and_then_get(Get(data, K_message), K_content))
      done == unwrap_or(and_then_as_bool(Get(data, K_done)), FALSE)
      error == unwrap_or(and_then_as_str(Get(data, K_error)), T_unknown_error)
  IN  IF Get(data, K_error) # None
      THEN Decoder(st.buffer, st.emitted, Append(st.decoded, data),
                   ErrText("Ollama error: ", error))
      ELSE Decoder(st.buffer,
                   IF content # None
                   THEN Append(st.emitted, StreamChunk(content[1], done))
                   ELSE st.emitted,
                   Append(st.decoded, data), st.result)

\* ollama_chat_stream on a parsed record: emit its content, if any, as a
\* chunk, then return the error, if it carries one.
ChatRecord(data, st) ==
  LET content == and_then_as_str(and_then_get(Get(data, K_message), K_content))
      done == unwrap_or(and_then_as_bool(Get(data, K_done)), FALSE)
      em == IF content # None
            THEN Append(st.emitted, StreamChunk(content[1], done))
            ELSE st.emitted
      error == unwrap_or(and_then_as_str(Get(data, K_error)), T_unknown_error)
  IN  Decoder(st.buffer, em, Append(st.decoded, data),
              IF Get(data, K_error) # None
              THEN ErrText("Ollama error: ", error) ELSE st.result)

\* match serde_json::from_str(&line): a line that is no JSON is logged and
\* skipped.
ChatParsed(p, st) == IF p.ok THEN ChatRecord(p.v, st) ELSE st

\* ollama_chat_stream on one non-blank line.
ChatLine(line, st) == ChatParsed(from_str(line), st)

\* The inner loop of ollama_chat_stream: take complete lines off the buffer
\* until none is left or a record made the call return.
RECURSIVE ChatLines(_)

\* Mutant of ChatAfter: the lines left in the buffer are still handled after
\* a record made the call fail.
ChatAfter_KeepsGoing(nx) ==
  IF nx.result # NoResult
  THEN [ChatLines([nx EXCEPT !.result = NoResult]) EXCEPT !.result = nx.result]
  ELSE ChatLines(nx)

\* The loop after a line: over when the line made the call return.
ChatAfter(nx) == IF nx.result # NoResult THEN nx ELSE ChatLines(nx)

ChatLines(st) ==
  LET newline_idx == find(st.buffer, 10) IN
    IF newline_idx = 0 THEN st
    ELSE
      LET line == SubSeq(st.buffer, 1, newline_idx - 1)
          rest == [st EXCEPT !.buffer = SubSeq(st.buffer, newline_idx + 1, Len(st.buffer))]
      IN  IF TrimIsEmpty(line) THEN ChatLines(rest)
          ELSE ChatAfter(ChatLine(line, rest))

\* The model being pulled.
ModelName == <<109>>

\* if total > 0 { (completed as f64 / total as f64) * 100.0 } else { 0.0 }
Percent(completed, total) ==
  IF total > 0 THEN F64Mul(F64Div(AsF64(completed), AsF64(total)), AsF64(100))
  ELSE Zero(FALSE)

Progress(status, total, completed) ==
  [event |-> "model_download_progress", model |-> ModelName, status |-> status,
   total |-> total, completed |-> completed, percent |-> Percent(completed, total)]

\* download_ollama_model on a parsed record: emit its progress, then return
\* the error, if it carries one that is a string.
PullRecord(data, st) ==
  LET status == unwrap_or(and_then_as_str(Get(data, K_status)), <<>>)
      total == unwrap_or(and_then_as_u64(Get(data, K_total)), 0)
      completed == unwrap_or(and_then_as_u64(Get(data, K_completed)), 0)
      error == and_then_as_str(Get(data, K_error))
  IN  Decoder(st.buffer, Append(st.emitted, Progress(status, total, completed)),
              Append(st.decoded, data),
              IF error # None THEN ErrText("Ollama error: ", error[1])
              ELSE st.result)

\* if let Ok(data) = serde_json::from_str(&line): a line that is no JSON is
\* skipped.
PullParsed(p, st) == IF p.ok THEN PullRecord(p.v, st) ELSE st

\* download_ollama_model on one non-blank line.
PullLine(line, st) == PullParsed(from_str(line), st)

\* The inner loop of download_ollama_model.
RECURSIVE PullLines(_)

PullAfter(nx) == IF nx.result # NoResult THEN nx ELSE PullLines(nx)

PullLines(st) ==
  LET newline_idx == find(st.buffer, 10) IN
    IF newline_idx = 0 THEN st
    ELSE
      LET line == SubSeq(st.buffer, 1, newline_idx - 1)
          rest == [st EXCEPT !.buffer = SubSeq(st.buffer, newline_idx + 1, Len(st.buffer))]
      IN  IF TrimIsEmpty(line) THEN PullLines(rest)
          ELSE PullAfter(PullLine(line, rest))

\* buffer.push_str(&String::from_utf8_lossy(&chunk)), then the inner loop.
ChatChunk(chunk, st) ==
  ChatLines([st EXCEPT !.buffer = st.buffer \o from_utf8_lossy(chunk)])

PullChunk(chunk, st) ==
  PullLines([st EXCEPT !.buffer = st.buffer \o from_utf8_lossy(chunk)])

\* The sizes the next chunk of a stream with rem bytes left may have.
ChunkSizes(rem) == {n \in 1..rem : n <= MaxChunk \/ n = rem}

\* The decoder of the running call.
Current == Decoder(buffer, emitted, decoded, NoResult)

\* Mutant of Continue: the call fails at the end of a chunk during which an
\* emission failed.
Continue_FailsOnEmit(st) ==
  /\ buffer' = st.buffer /\ emitted' = st.emitted /\ decoded' = st.decoded
  /\ IF \E k \in (Len(emitted) + 1)..Len(st.emitted) : k \in undelivered
     THEN pc' = "returned" /\ result' = Err("Failed to emit event: ")
     ELSE IF st.result # NoResult
     THEN pc' = "returned" /\ result' = st.result
     ELSE pc' = "stream" /\ result' = result

\* The running call takes the decoder state st: it returns when st carries a
\* result and waits for the next chunk otherwise.  The emissions made on the
\* way have their answers dropped (.ok()).
Continue(st) ==
  /\ buffer' = st.buffer /\ emitted' = st.emitted /\ decoded' = st.decoded
  /\ IF st.result # NoResult
     THEN pc' = "returned" /\ result' = st.result
     ELSE pc' = "stream" /\ result' = result

\* ollama_chat_stream up to the answer to its request.
ChatStreamSend ==
  /\ cmd = "ollama_chat_stream" /\ pc = "start"
  /\ request' = Some(ChatStreamBody(args))
  /\ IF srvResp.err
     THEN pc' = "returned" /\ result' = Err("Chat request failed: ")
     ELSE IF ~is_success(srvResp.status)
     THEN pc' = "returned" /\ result' = ErrStatus("Chat failed: HTTP ", srvResp.status)
     ELSE pc' = "stream" /\ result' = result
  /\ UNCHANGED <<cmd, os, args, trace, local, fs, zipBody, hostVars, probeVars, streamVars>>

\* stream.next() yields a chunk: append it, then handle every complete line.
ChatStreamNext ==
  /\ cmd = "ollama_chat_stream" /\ pc = "stream"
  /\ \E n \in ChunkSizes(Len(net) - pos) :
       /\ pos' = pos + n
       /\ Continue(ChatChunk(SubSeq(net, pos + 1, pos + n), Current))
       /\ alone' = ChatChunk(SubSeq(net, pos + 1, pos + n), alone)
  /\ UNCHANGED <<cmd, extVars, probeVars, srvResp, net>>

\* stream.next() yields an error: the call returns it.
ChatStreamErr ==
  /\ cmd = "ollama_chat_stream" /\ pc = "stream"
  /\ pc' = "returned" /\ result' = Err("Stream error: ")
  /\ UNCHANGED <<cmd, extVars, probeVars, streamVars>>

\* Mutant of ChatStreamEnd: what is left in the buffer at the end of the
\* stream is handled as a last line.
ChatStreamEnd_Flushes ==
  /\ cmd = "ollama_chat_stream" /\ pc = "stream" /\ pos = Len(net)
  /\ pc' = "returned" /\ result' = Ok(<<>>)
  /\ buffer' = <<>>
  /\ emitted' = ChatLine(buffer, Current).emitted
  /\ decoded' = ChatLine(buffer, Current).decoded
  /\ UNCHANGED <<cmd, extVars, probeVars, srvResp, net, pos, alone>>

\* stream.next() yields None: the stream is over and the call returns Ok(()).
ChatStreamEnd ==
  /\ cmd = "ollama_chat_stream" /\ pc = "stream" /\ pos = Len(net)
  /\ pc' = "returned" /\ result' = Ok(<<>>)
  /\ UNCHANGED <<cmd, extVars, probeVars, streamVars>>

\* download_ollama_model up to the answer to its request.
PullSend ==
  /\ cmd = "download_ollama_model" /\ pc = "start"
  /\ IF srvResp.err
     THEN pc' = "returned" /\ result' = Err("Failed to start model download: ")
     ELSE IF ~is_success(srvResp.status)
     THEN pc' = "returned"
          /\ result' = ErrStatus("Failed to download model: HTTP ", srvResp.status)
     ELSE pc' = "stream" /\ result' = result
  /\ UNCHANGED <<cmd, extVars, probeVars, streamVars>>

PullNext ==
  /\ cmd = "download_ollama_model" /\ pc = "stream"
  /\ \E n \in ChunkSizes(Len(net) - pos) :
       /\ pos' = pos + n
       /\ Continue(PullChunk(SubSeq(net, pos + 1, pos + n), Current))
       /\ alone' = PullChunk(SubSeq(net, pos + 1, pos + n), alone)
  /\ UNCHANGED <<cmd, extVars, probeVars, srvResp, net>>

PullErr ==
  /\ cmd = "download_ollama_model" /\ pc = "stream"
  /\ pc' = "returned" /\ result' = Err("Stream error: ")
  /\ UNCHANGED <<cmd, extVars, probeVars, streamVars>>

PullEnd ==
  /\ cmd = "download_ollama_model" /\ pc = "stream" /\ pos = Len(net)
  /\ pc' = "returned" /\ result' = Ok(<<>>)
  /\ UNCHANGED <<cmd, extVars, probeVars, streamVars>>

\* --- a second streaming call, running at the same time ---------------------
\* Each invocation of a command is a future of its own, with its own stream
\* and its own locals: other holds those of the second call.
Call(c, bytes) ==
  [cmd |-> c, pc |-> "stream", result |-> NoResult, net |-> bytes, pos |-> 0,
   buffer |-> <<>>, emitted |-> <<>>, decoded |-> <<>>, alone |-> NewDecoder]

\* The decoder of the second call.
OtherCurrent == Decoder(other.buffer, other.emitted, other.decoded, NoResult)

\* The decoder loop of the second call's command on a chunk.
OtherChunk(chunk, st) ==
  IF other.cmd = "ollama_chat_stream" THEN ChatChunk(chunk, st) ELSE PullChunk(chunk, st)

\* The second call after a chunk of n bytes left its decoder as st.
OtherTakes(n, st, al) ==
  [other EXCEPT !.pos = @ + n,
                !.buffer = st.buffer, !.emitted = st.emitted, !.decoded = st.decoded,
                !.pc = IF st.result # NoResult THEN "returned" ELSE "stream",
                !.result = st.result,
                !.alone = al]

otherFrame == <<cmd, pc, result, probeVars, srvResp, net, pos, emitted, decoded, alone,
                os, args, request, trace, local, fs, zipBody, undelivered, window, closer>>

\* Mutant of OtherNext: the two calls share one buffer.
OtherNext_SharedBuffer ==
  /\ other # NoCall /\ other.pc = "stream"
  /\ \E n \in ChunkSizes(Len(other.net) - other.pos) :
       /\ other' = [OtherTakes(n,
                      OtherChunk(SubSeq(other.net, other.pos + 1, other.pos + n),
                                 Decoder(buffer, other.emitted, other.decoded, NoResult)),
                      OtherChunk(SubSeq(other.net, other.pos + 1, other.pos + n), other.alone))
                    EXCEPT !.buffer = other.buffer]
       /\ buffer' = OtherChunk(SubSeq(other.net, other.pos + 1, other.pos + n),
                               Decoder(buffer, other.emitted, other.decoded, NoResult)).buffer
  /\ UNCHANGED otherFrame

\* The stream of the second call yields a chunk.
OtherNext ==
  /\ other # NoCall /\ other.pc = "stream"
  /\ \E n \in ChunkSizes(Len(other.net) - other.pos) :
       other' = OtherTakes(n,
                  OtherChunk(SubSeq(other.net, other.pos + 1, other.pos + n), OtherCurrent),
                  OtherChunk(SubSeq(other.net, other.pos + 1, other.pos + n), other.alone))
  /\ buffer' = buffer
  /\ UNCHANGED otherFrame

\* The stream of the second call is over.
OtherEnd ==
  /\ other # NoCall /\ other.pc = "stream" /\ other.pos = Len(other.net)
  /\ other' = [other EXCEPT !.pc = "returned", !.result = Ok(<<>>)]
  /\ buffer' = buffer
  /\ UNCHANGED otherFrame

(***************************************************************************)
(* ollama_chat: one request, one JSON answer.                               *)
(***************************************************************************)
K_role == <<114, 111, 108, 101>>

\* struct ChatMessage { role: String, content: String } and
\* struct ChatResponse { message: ChatMessage }.
ChatMessageType ==
  StructType(<<FieldType(K_role, StringType), FieldType(K_content, StringType)>>)
ChatResponseType == StructType(<<FieldType(K_message, ChatMessageType)>>)

\* response.json::<ChatResponse>() and the reply text, data.message.content.
ParsedChatResult(p) ==
  IF ~p.ok THEN Err("Failed to parse response: ")
  ELSE Ok(p.v[K_message][K_content])

\* The result ollama_chat returns for an outcome of its request.
ChatResult(resp) ==
  IF resp.err THEN Err("Chat request failed: ")
  ELSE IF ~is_success(resp.status) THEN ErrStatus("Chat failed: HTTP ", resp.status)
  ELSE IF resp.bodyErr THEN Err("Failed to parse response: ")
  ELSE ParsedChatResult(from_slice_as(resp.body, ChatResponseType))

\* Whether the answer to a request came with a success status: the call goes
\* on to read the body.
Answered(resp) == ~resp.err /\ is_success(resp.status)

\* ollama_chat up to the answer of its request: send().await and the test
\* of the status.
OllamaChat ==
  /\ cmd = "ollama_chat" /\ pc = "start"
  /\ request' = Some(ChatBody(args))
  /\ IF Answered(srvResp)
     THEN pc' = "body" /\ result' = result
     ELSE pc' = "returned" /\ result' = ChatResult(srvResp)
  /\ UNCHANGED <<cmd, os, args, trace, local, fs, zipBody, hostVars, probeVars, streamVars>>

\* ollama_chat from the answer on: json().await and the return.
OllamaChatBody ==
  /\ cmd = "ollama_chat" /\ pc = "body"
  /\ result' = ChatResult(srvResp)
  /\ pc' = "returned"
  /\ UNCHANGED <<cmd, os, args, request, trace, local, fs, zipBody, hostVars, probeVars, streamVars>>

\* struct EmbeddingResponse { embedding: Vec<f64> }.
K_embedding == <<101, 109, 98, 101, 100, 100, 105, 110, 103>>
EmbeddingResponseType == StructType(<<FieldType(K_embedding, VecF64Type)>>)

\* The body of ollama_embedding's request.
EmbeddingBody(a) == [model |-> a.model, prompt |-> a.text]

\* response.json::<EmbeddingResponse>() and the vector, data.embedding.
ParsedEmbeddingResult(p) ==
  IF ~p.ok THEN Err("Failed to parse response: ") ELSE Ok(p.v[K_embedding])

\* The result ollama_embedding returns for an outcome of its request.
EmbeddingResult(resp) ==
  IF resp.err THEN Err("Embedding request failed: ")
  ELSE IF ~is_success(resp.status) THEN ErrStatus("Embedding failed: HTTP ", resp.status)
  ELSE IF resp.bodyErr THEN Err("Failed to parse response: ")
  ELSE ParsedEmbeddingResult(from_slice_as(resp.body, EmbeddingResponseType))

\* ollama_embedding up to the answer of its request: send().await and the
\* test of the status.
OllamaEmbedding ==
  /\ cmd = "ollama_embedding" /\ pc = "start"
  /\ request' = Some(EmbeddingBody(args))
  /\ IF Answered(srvResp)
     THEN pc' = "body" /\ result' = result
     ELSE pc' = "returned" /\ result' = EmbeddingResult(srvResp)
  /\ UNCHANGED <<cmd, os, args, trace, local, fs, zipBody, hostVars, probeVars, streamVars>>

\* ollama_embedding from the answer on: json().await and the return.
OllamaEmbeddingBody ==
  /\ cmd = "ollama_embedding" /\ pc = "body"
  /\ result' = EmbeddingResult(srvResp)
  /\ pc' = "returned"
  /\ UNCHANGED <<cmd, os, args, request, trace, local, fs, zipBody, hostVars, probeVars, streamVars>>

\* --- what the server may send -------------------------------------------
\* Lines of a chat stream: content in ASCII and in two-byte UTF-8, a final
\* chunk, an error, content with an error, a record without content, an
\* error that is no string, text that is no JSON, a blank line.
ChatServerLines ==
  { Obj1(K_message, Obj1(K_content, Quoted(<<97>>))),
    Obj1(K_message, Obj1(K_content, Quoted(<<195, 169>>))),
    Obj(<<Member(K_message, Obj1(K_content, Quoted(<<98>>))), Member(K_done, T_true)>>),
    Obj1(K_error, Quoted(<<120>>)),
    Obj(<<Member(K_message, Obj1(K_content, Quoted(<<99>>))),
          Member(K_error, Quoted(<<121>>))>>),
    Obj1(K_done, T_true),
    Obj1(K_error, T_null),
    <<123, 34>>,
    <<32>> }

\* Lines of a pull stream: progress, a status in two-byte UTF-8, an error, a
\* status with an error, an error that is no string, no JSON, a blank line.
PullServerLines ==
  { Obj(<<Member(K_status, Quoted(<<115>>)), Member(K_total, <<52>>),
          Member(K_completed, <<49>>)>>),
    Obj1(K_status, Quoted(<<195, 169>>)),
    Obj1(K_error, Quoted(<<120>>)),
    Obj(<<Member(K_status, Quoted(<<115>>)), Member(K_error, Quoted(<<121>>))>>),
    Obj1(K_error, <<49>>),
    <<123, 34>>,
    <<32>> }

ServerLines(c) == IF c = "ollama_chat_stream" THEN ChatServerLines ELSE PullServerLines

\* What may follow the last line break: nothing, or a record cut off from
\* its line break.
ServerTails(c) ==
  { <<>>,
    IF c = "ollama_chat_stream" THEN Obj1(K_message, Obj1(K_content, Quoted(<<97>>)))
    ELSE Obj1(K_status, Quoted(<<115>>)) }

\* The byte streams: at most MaxLines lines, each ended by a line break,
\* then a tail.
Streams(c) ==
  { Concat([i \in DOMAIN ls |-> ls[i] \o <<10>>]) \o t :
      ls \in SeqUpTo(ServerLines(c), MaxLines), t \in ServerTails(c) }

(***************************************************************************)
(* The service probes: check_ollama_status and ping_ollama.                 *)
(***************************************************************************)
\* Largest number of entries in the model list the server returns.
MaxModels == 2

OllamaStatus(r, a, m) == [running |-> r, models_available |-> a, models |-> m]

\* arr.iter().filter_map(|m| m["name"].as_str().map(String::from)).collect()
RECURSIVE NamesOf(_)
NamesOf(arr) ==
  IF arr = <<>> THEN <<>>
  ELSE LET n == as_str(Index(Head(arr), K_name)) IN
    (IF n = None THEN <<>> ELSE <<n[1]>>) \o NamesOf(Tail(arr))

\* data["models"].as_array().map(..).unwrap_or_default()
ModelsOf(data) ==
  LET arr == as_array(Index(data, K_models)) IN
    IF arr = None THEN <<>> ELSE NamesOf(arr[1])

\* Mutant of StatusOfTags: models are available when the list has entries,
\* named or not.
StatusOfTags_CountsEntries(data) ==
  OllamaStatus(TRUE, unwrap_or(as_array(Index(data, K_models)), <<>>) # <<>>,
               ModelsOf(data))

\* The status check_ollama_status builds from a parsed model-list body.
StatusOfTags(data) ==
  LET models == ModelsOf(data)
      has_models == models # <<>>
  IN  OllamaStatus(TRUE, has_models, models)

\* Mutant of CheckStatusVersion: any answer to the version request counts as
\* a running server, whatever its status.
CheckStatusVersion_IgnoresStatus ==
  /\ cmd = "check_ollama_status" /\ pc = "start"
  /\ requests' = Append(requests, "version")
  /\ IF ~srvVersion.err
     THEN pc' = "tags" /\ result' = result
     ELSE pc' = "returned" /\ result' = Ok(OllamaStatus(FALSE, FALSE, <<>>))
  /\ UNCHANGED <<cmd, extVars, srvVersion, srvTags, streamVars>>

\* check_ollama_status up to the answer of the version request.
CheckStatusVersion ==
  /\ cmd = "check_ollama_status" /\ pc = "start"
  /\ requests' = Append(requests, "version")
  /\ IF ~srvVersion.err /\ is_success(srvVersion.status)
     THEN pc' = "tags" /\ result' = result
     ELSE pc' = "returned" /\ result' = Ok(OllamaStatus(FALSE, FALSE, <<>>))
  /\ UNCHANGED <<cmd, extVars, srvVersion, srvTags, streamVars>>

\* match tags_response.json::<serde_json::Value>().await
ParsedTagsResult(p) ==
  IF p.ok THEN Ok(StatusOfTags(p.v)) ELSE Ok(OllamaStatus(TRUE, FALSE, <<>>))

\* Mutant of TagsResult: a model list that could not be had counts as a
\* server that does not run.
TagsResult_DownOnFailure(tags) ==
  IF tags.err THEN Ok(OllamaStatus(FALSE, FALSE, <<>>))
  ELSE IF ~is_success(tags.status) THEN Ok(OllamaStatus(FALSE, FALSE, <<>>))
  ELSE IF tags.bodyErr THEN Ok(OllamaStatus(FALSE, FALSE, <<>>))
  ELSE ParsedTagsResult(from_slice(tags.body))

\* Mutant of TagsResult: the body is parsed whatever the status.
TagsResult_IgnoresStatus(tags) ==
  IF tags.err THEN Ok(OllamaStatus(TRUE, FALSE, <<>>))
  ELSE IF tags.bodyErr THEN Ok(OllamaStatus(TRUE, FALSE, <<>>))
  ELSE ParsedTagsResult(from_slice(tags.body))

\* The result check_ollama_status returns for an outcome of the tags request.
TagsResult(tags) ==
  IF tags.err THEN Ok(OllamaStatus(TRUE, FALSE, <<>>))
  ELSE IF ~is_success(tags.status) THEN Ok(OllamaStatus(TRUE, FALSE, <<>>))
  ELSE IF tags.bodyErr THEN Ok(OllamaStatus(TRUE, FALSE, <<>>))
  ELSE ParsedTagsResult(from_slice(tags.body))

\* check_ollama_status from the tags request to the answer: send().await
\* and the test of the status.
CheckStatusTags ==
  /\ cmd = "check_ollama_status" /\ pc = "tags"
  /\ requests' = Append(requests, "tags")
  /\ IF Answered(srvTags)
     THEN pc' = "body" /\ result' = result
     ELSE pc' = "returned" /\ result' = TagsResult(srvTags)
  /\ UNCHANGED <<cmd, extVars, srvVersion, srvTags, streamVars>>

\* check_ollama_status from the answer on: json::<Value>().await and the
\* return.
CheckStatusBody ==
  /\ cmd = "check_ollama_status" /\ pc = "body"
  /\ result' = TagsResult(srvTags)
  /\ pc' = "returned"
  /\ UNCHANGED <<cmd, extVars, probeVars, streamVars>>

\* Mutant of PingResult: a transport error is returned to the caller.
PingResult_Raises(version) ==
  IF version.err THEN [kind |-> "Err", msg |-> "Ollama ping failed: "]
  ELSE IF is_success(version.status) THEN Ok(TRUE)
  ELSE Ok(FALSE)

\* The result ping_ollama returns for an outcome of the version request.
PingResult(version) ==
  IF version.err THEN Ok(FALSE)
  ELSE IF is_success(version.status) THEN Ok(TRUE)
  ELSE Ok(FALSE)

PingOllama ==
  /\ cmd = "ping_ollama" /\ pc = "start"
  /\ requests' = Append(requests, "version")
  /\ result' = PingResult(srvVersion)
  /\ pc' = "returned"
  /\ UNCHANGED <<cmd, extVars, srvVersion, srvTags, streamVars>>

\* --- what the server may answer -----------------------------------------
StatusCodes == {200, 299, 300, 404}

\* Entries of a model list: two named models, a name that is no string, an
\* entry without a name, an entry that is no object.
ModelEntries ==
  { Obj1(K_name, Quoted(<<97>>)), Obj1(K_name, Quoted(<<195, 169>>)),
    Obj1(K_name, <<49>>), Obj1(K_models, <<49>>), <<49>> }

\* Bodies of the tags response: model lists, "models" absent or no array,
\* text that is no JSON, bytes that are no UTF-8.
TagsBodies ==
  { Obj1(K_models, <<91>> \o JoinComma(es) \o <<93>>) : es \in SeqUpTo(ModelEntries, MaxModels) }
  \cup { <<123, 125>>, Obj1(K_models, T_null), Obj1(K_name, Quoted(<<97>>)),
         <<123, 34>>, <<>>, Obj1(K_models, <<91>> \o Obj1(K_name, Quoted(<<195>>)) \o <<93>>) }

VersionOutcomes == {TransportErr} \cup {Response(c) : c \in StatusCodes}

TagsOutcomes ==
  {TransportErr}
  \cup {[err |-> FALSE, status |-> c, bodyErr |-> TRUE, body |-> <<>>] : c \in StatusCodes}
  \cup {[err |-> FALSE, status |-> c, bodyErr |-> FALSE, body |-> b] :
          c \in StatusCodes, b \in TagsBodies}

(***************************************************************************)
(* start_ollama_service and stop_ollama_service.                            *)
(* The build targets one platform (os).  Every process run and every path   *)
(* probed is appended to trace; what the operating system answers is chosen *)
(* when the call is made.                                                   *)
(***************************************************************************)
\* A program named by a fixed command or path, or by text read from a
\* command's output.
Named(n) == [name |-> n]
Resolved(text) == [text |-> text]

\* Command::spawn(): ok tells whether the process was started.
Spawn(prog, argv, ok) == [op |-> "spawn", prog |-> prog, argv |-> argv, ok |-> ok]
\* Command::output(): ran tells whether the command could be executed, code is
\* its exit code (None when a signal ended it), out its standard output.
Output(prog, argv, o) ==
  [op |-> "output", prog |-> prog, argv |-> argv, ok |-> o.ran, code |-> o.code,
   out |-> o.out]
\* Path::exists()
Exists(path, found) == [op |-> "exists", path |-> path, ok |-> found]

Ran(code, out) == [ran |-> TRUE, code |-> code, out |-> out]
NotRun == [ran |-> FALSE, code |-> None, out |-> <<>>]

\* ExitStatus::success()
success(o) == o.code = Some(0)

\* str::trim(): without the leading and trailing white space.
Trim(t) ==
  LET keep == {i \in DOMAIN t : ~IsWhitespace(t[i])}
      first == CHOOSE i \in keep : \A j \in keep : i <= j
      last == CHOOSE i \in keep : \A j \in keep : j <= i
  IN  IF keep = {} THEN <<>> ELSE SubSeq(t, first, last)

\* The letters A..Z lowered, every other character as it is.
to_ascii_lowercase(t) ==
  [i \in DOMAIN t |-> IF t[i] >= 65 /\ t[i] <= 90 THEN t[i] + 32 ELSE t[i]]

ends_with(t, suffix) ==
  Len(t) >= Len(suffix) /\ SubSeq(t, Len(t) - Len(suffix) + 1, Len(t)) = suffix

T_ollama_exe == <<111, 108, 108, 97, 109, 97, 46, 101, 120, 101>>

\* String::from_utf8(output.stdout) and trim(): the path a lookup command
\* printed, None when the command failed, printed no UTF-8 or printed nothing.
LookupPath(o) ==
  IF ~o.ran \/ ~success(o) \/ ~Utf8Valid(o.out) THEN None
  ELSE IF Trim(from_utf8_lossy(o.out)) = <<>> THEN None
  ELSE Some(Trim(from_utf8_lossy(o.out)))

\* ollama_path.to_lowercase().ends_with("ollama.exe").  str::to_lowercase
\* maps each character by Unicode's lowercase mapping; of the characters
\* that are not ASCII only U+212A (to k) and U+0130 (to i and U+0307) map
\* to text with an ASCII letter in it, and neither letter is in
\* "ollama.exe": the lowered path ends with it exactly when the path's last
\* ten characters are its letters, in either case.
IsOllamaExe(path) == ends_with(to_ascii_lowercase(path), T_ollama_exe)

\* The path `where ollama` gave, when it names ollama.exe.
WherePath(o) ==
  IF LookupPath(o) # None /\ IsOllamaExe(LookupPath(o)[1])
  THEN LookupPath(o) ELSE None

Serve == <<"serve">>

\* The call returns r.
Return(r) == pc' = "returned" /\ result' = r

launchFrame == <<cmd, os, args, request, fs, zipBody, hostVars, probeVars, streamVars>>

\* --- macOS ----------------------------------------------------------------
\* Mutant of MacServe: the application is launched even when the server was
\* spawned.
MacServe_AlsoOpens ==
  /\ cmd = "start_ollama_service" /\ os = "macos" /\ pc = "start"
  /\ \E ok \in BOOLEAN :
       trace' = Append(trace, Spawn(Named("ollama"), Serve, ok))
  /\ pc' = "open" /\ result' = result
  /\ UNCHANGED <<launchFrame, local>>

\* Method 1: spawn `ollama serve`.
MacServe ==
  /\ cmd = "start_ollama_service" /\ os = "macos" /\ pc = "start"
  /\ \E ok \in BOOLEAN :
       /\ trace' = Append(trace, Spawn(Named("ollama"), Serve, ok))
       /\ IF ok THEN Return(Ok("Ollama starting... Please wait 10-20 seconds for it to initialize."))
          ELSE pc' = "open" /\ result' = result
  /\ UNCHANGED <<launchFrame, local>>

\* Method 2: launch the application; the outcome of the spawn is dropped.
MacOpen ==
  /\ cmd = "start_ollama_service" /\ os = "macos" /\ pc = "open"
  /\ \E ok \in BOOLEAN :
       trace' = Append(trace, Spawn(Named("open"), <<"-g", "-a", "Ollama">>, ok))
  /\ Return(Ok("Ollama starting via app... Please wait 10-20 seconds for it to initialize."))
  /\ UNCHANGED <<launchFrame, local>>

\* --- Windows --------------------------------------------------------------
\* ollama_exe_paths, in the order they are checked.
ollama_exe_paths ==
  << "%LOCALAPPDATA%\\PrivatePDF\\ollama\\ollama.exe",
     "%LOCALAPPDATA%\\Programs\\Ollama\\ollama.exe",
     "%PROGRAMFILES%\\Ollama\\ollama.exe" >>

\* The index of the path the loop of method 1 is at.
WinIndex == IF pc = "start" THEN 1 ELSE local.i

\* After the path at index i failed: the next path, or method 2.
WinNextPath(i) ==
  /\ result' = result
  /\ IF i < Len(ollama_exe_paths)
     THEN pc' = "paths" /\ local' = [i |-> i + 1]
     ELSE pc' = "where" /\ local' = NoLocals

\* Mutant of WinCheckPath: after a path was spawned the loop goes on to the
\* next path.
WinCheckPath_KeepsGoing ==
  /\ cmd = "start_ollama_service" /\ os = "windows" /\ pc \in {"start", "paths"}
  /\ \E found \in BOOLEAN, ok \in BOOLEAN :
       IF found
       THEN /\ trace' = trace \o << Exists(Named(ollama_exe_paths[WinIndex]), TRUE),
                                    Spawn(Named(ollama_exe_paths[WinIndex]), Serve, ok) >>
            /\ WinNextPath(WinIndex)
       ELSE /\ ~ok
            /\ trace' = Append(trace, Exists(Named(ollama_exe_paths[WinIndex]), FALSE))
            /\ WinNextPath(WinIndex)
  /\ UNCHANGED launchFrame

\* Method 1, one turn of the loop: spawn the path if it exists.
WinCheckPath ==
  /\ cmd = "start_ollama_service" /\ os = "windows" /\ pc \in {"start", "paths"}
  /\ \E found \in BOOLEAN, ok \in BOOLEAN :
       IF found
       THEN /\ trace' = trace \o << Exists(Named(ollama_exe_paths[WinIndex]), TRUE),
                                    Spawn(Named(ollama_exe_paths[WinIndex]), Serve, ok) >>
            /\ IF ok
               THEN /\ Return(Ok("Ollama server starting. Please wait a few seconds for it to initialize."))
                    /\ local' = local
               ELSE WinNextPath(WinIndex)
       ELSE /\ ~ok
            /\ trace' = Append(trace, Exists(Named(ollama_exe_paths[WinIndex]), FALSE))
            /\ WinNextPath(WinIndex)
  /\ UNCHANGED launchFrame

\* What `where ollama` may answer: not run, no match, a path of ollama.exe in
\* either case with a line end, a path of another file, nothing, no UTF-8.
WhereOutcomes ==
  { NotRun, Ran(Some(1), <<>>),
    Ran(Some(0), <<67, 58, 92>> \o T_ollama_exe \o <<13, 10>>),
    Ran(Some(0), <<67, 58, 92, 79, 76, 76, 65, 77, 65, 46, 69, 88, 69>>),
    Ran(Some(0), <<67, 58, 92, 111, 108, 108, 97, 109, 97, 46, 98, 97, 116, 10>>),
    Ran(Some(0), <<13, 10>>),
    Ran(Some(0), <<255>> \o T_ollama_exe) }

\* Method 2: `where ollama`, and spawn the path it printed.
WinWhere ==
  /\ cmd = "start_ollama_service" /\ os = "windows" /\ pc = "where"
  /\ \E o \in WhereOutcomes, ok \in BOOLEAN :
       IF WherePath(o) # None
       THEN /\ trace' = trace \o << Output(Named("where"), <<"ollama">>, o),
                                    Spawn(Resolved(WherePath(o)[1]), Serve, ok) >>
            /\ IF ok THEN Return(Ok("Ollama server starting. Please wait a few seconds for it to initialize."))
               ELSE pc' = "bare" /\ result' = result
       ELSE /\ ~ok
            /\ trace' = Append(trace, Output(Named("where"), <<"ollama">>, o))
            /\ pc' = "bare" /\ result' = result
  /\ UNCHANGED <<launchFrame, local>>

\* Method 3: spawn the bare command; when it fails every method has.
WinBare ==
  /\ cmd = "start_ollama_service" /\ os = "windows" /\ pc = "bare"
  /\ \E ok \in BOOLEAN :
       /\ trace' = Append(trace, Spawn(Named("ollama"), Serve, ok))
       /\ IF ok
          THEN Return(Ok("Ollama server starting. Please wait a few seconds for it to initialize."))
          ELSE Return(Err("Could not find or start Ollama. Please: 1. Install Ollama ..."))
  /\ UNCHANGED <<launchFrame, local>>

\* --- Linux ----------------------------------------------------------------
\* What `which ollama` may answer: not run, no match, a path with a line
\* end, nothing, no UTF-8.
WhichOutcomes ==
  { NotRun, Ran(Some(1), <<>>),
    Ran(Some(0), <<47, 98, 105, 110, 47, 111, 108, 108, 97, 109, 97, 10>>),
    Ran(Some(0), <<10>>),
    Ran(Some(0), <<47, 255, 10>>) }

\* common_paths, in the order they are checked.
common_paths ==
  << "/usr/local/bin/ollama", "/usr/bin/ollama", "/opt/ollama/bin/ollama",
     "$HOME/.local/bin/ollama" >>

\* Method 1: `which ollama`.
LinuxWhich ==
  /\ cmd = "start_ollama_service" /\ os = "linux" /\ pc = "start"
  /\ \E o \in WhichOutcomes :
       /\ trace' = Append(trace, Output(Named("which"), <<"ollama">>, o))
       /\ IF LookupPath(o) # None
          THEN pc' = "systemd" /\ local' = [ollama_path |-> Resolved(LookupPath(o)[1])]
          ELSE pc' = "common" /\ local' = [i |-> 1]
  /\ result' = result
  /\ UNCHANGED launchFrame

\* Mutant of LinuxCheckPath: when no common path exists the launcher goes on
\* with the bare command name.
LinuxCheckPath_FallsBack ==
  /\ cmd = "start_ollama_service" /\ os = "linux" /\ pc = "common"
  /\ \E found \in BOOLEAN :
       /\ trace' = Append(trace, Exists(Named(common_paths[local.i]), found))
       /\ IF found
          THEN /\ pc' = "systemd" /\ result' = result
               /\ local' = [ollama_path |-> Named(common_paths[local.i])]
          ELSE IF local.i < Len(common_paths)
          THEN pc' = "common" /\ result' = result /\ local' = [i |-> local.i + 1]
          ELSE /\ pc' = "systemd" /\ result' = result
               /\ local' = [ollama_path |-> Named("ollama")]
  /\ UNCHANGED launchFrame

\* Method 2, one turn of the loop: the first common path that exists is the
\* executable; when none exists the call fails.
LinuxCheckPath ==
  /\ cmd = "start_ollama_service" /\ os = "linux" /\ pc = "common"
  /\ \E found \in BOOLEAN :
       /\ trace' = Append(trace, Exists(Named(common_paths[local.i]), found))
       /\ IF found
          THEN /\ pc' = "systemd" /\ result' = result
               /\ local' = [ollama_path |-> Named(common_paths[local.i])]
          ELSE IF local.i < Len(common_paths)
          THEN pc' = "common" /\ result' = result /\ local' = [i |-> local.i + 1]
          ELSE /\ Return(Err("Ollama is not installed or not in PATH. Please install Ollama ..."))
               /\ local' = local
  /\ UNCHANGED launchFrame

\* Exit codes of `systemctl --user status ollama`: running, dead, stopped,
\* no such unit, ended by a signal.
StatusOutcomes ==
  { NotRun, Ran(Some(0), <<>>), Ran(Some(1), <<>>), Ran(Some(3), <<>>),
    Ran(Some(4), <<>>), Ran(None, <<>>) }

\* Mutant of UnitFound: any answer of the status query counts as a unit.
UnitFound_AnyExit(o) == o.ran

\* output.status.code().unwrap_or(255) <= 3
UnitFound(o) == o.ran /\ unwrap_or(o.code, 255) <= 3

\* Method 3: start the user service when systemctl knows the unit.
LinuxSystemd ==
  /\ cmd = "start_ollama_service" /\ os = "linux" /\ pc = "systemd"
  /\ \E o \in StatusOutcomes, ok \in BOOLEAN :
       IF UnitFound(o)
       THEN /\ trace' = trace \o
                 << Output(Named("systemctl"), <<"--user", "status", "ollama">>, o),
                    Spawn(Named("systemctl"), <<"--user", "start", "ollama">>, ok) >>
            /\ IF ok THEN Return(Ok("Ollama service started via systemd."))
               ELSE pc' = "serve" /\ result' = result
       ELSE /\ ~ok
            /\ trace' = Append(trace,
                 Output(Named("systemctl"), <<"--user", "status", "ollama">>, o))
            /\ pc' = "serve" /\ result' = result
  /\ UNCHANGED <<launchFrame, local>>

\* Method 4: spawn `<ollama_path> serve`.
LinuxServe ==
  /\ cmd = "start_ollama_service" /\ os = "linux" /\ pc = "serve"
  /\ \E ok \in BOOLEAN :
       /\ trace' = Append(trace, Spawn(local.ollama_path, Serve, ok))
       /\ IF ok
          THEN Return(Ok("Ollama service started. Please wait a few seconds for it to initialize."))
          ELSE Return(Err("Failed to start Ollama. Please start it manually ..."))
  /\ UNCHANGED <<launchFrame, local>>

\* --- stop_ollama_service ---------------------------------------------------
\* What the kill command may do: not run, kill a process, match none (exit
\* code 1, taskkill 128), end by a signal.
KillOutcomes ==
  { NotRun, Ran(Some(0), <<>>), Ran(Some(1), <<>>), Ran(Some(128), <<>>),
    Ran(None, <<>>) }

\* The command stop_ollama_service runs.  macOS spawns it and does not wait:
\* code is the exit code the process ends with, which the call never reads.
KillCommand(platform, o) ==
  IF platform = "macos"
  THEN [op |-> "spawn", prog |-> Named("pkill"), argv |-> <<"-f", "ollama">>,
        ok |-> o.ran, code |-> o.code]
  ELSE IF platform = "windows"
  THEN Output(Named("taskkill"), <<"/F", "/IM", "ollama.exe">>, o)
  ELSE Output(Named("pkill"), <<"-f", "ollama serve">>, o)

\* Mutant of StopResult: on Windows a taskkill that killed nothing is an
\* error.
StopResult_FailsOnNoMatch(platform, o) ==
  IF platform = "macos" THEN
    IF o.ran THEN Ok("Ollama service stopped") ELSE Err("Failed to stop Ollama: ")
  ELSE IF platform = "windows" THEN
    IF ~o.ran THEN Err("Failed to stop Ollama: ")
    ELSE IF success(o) THEN Ok("Ollama service stopped")
    ELSE Err("Failed to stop Ollama: ")
  ELSE
    IF ~o.ran THEN Ok("Ollama stop attempted")
    ELSE IF success(o) THEN Ok("Ollama service stopped")
    ELSE Ok("Ollama service stopped (or not running)")

\* The result stop_ollama_service returns for an outcome of its command.
StopResult(platform, o) ==
  IF platform = "macos" THEN
    IF o.ran THEN Ok("Ollama service stopped") ELSE Err("Failed to stop Ollama: ")
  ELSE IF platform = "windows" THEN
    IF ~o.ran THEN Err("Failed to stop Ollama: ")
    ELSE IF success(o) THEN Ok("Ollama service stopped")
    ELSE Ok("Ollama stop attempted (may not have been running)")
  ELSE
    IF ~o.ran THEN Ok("Ollama stop attempted")
    ELSE IF success(o) THEN Ok("Ollama service stopped")
    ELSE Ok("Ollama service stopped (or not running)")

StopService ==
  /\ cmd = "stop_ollama_service" /\ pc = "start"
  /\ \E o \in KillOutcomes :
       /\ trace' = Append(trace, KillCommand(os, o))
       /\ Return(StopResult(os, o))
  /\ UNCHANGED <<launchFrame, local>>

\* --- the close handler of the main window (lib.rs) -------------------------
\* The handler runs on the thread of the event loop; a command runs as a task
\* of the async runtime.  The handler's call of stop_ollama_service is a call
\* of its own, beside whatever command is in flight: where it stands (pc),
\* what it returned (result) and the commands it ran (ran).
NoCloser == [pc |-> "idle", result |-> NoResult, ran |-> <<>>]

closeFrame == <<cmd, pc, result, os, args, request, trace, local, fs, zipBody,
                undelivered, other, probeVars, streamVars>>

\* WindowEvent::CloseRequested arrives, whether or not a command runs: the
\* handler enters block_on(stop_ollama_service()).
CloseRequested ==
  /\ window = "open"
  /\ window' = "closing"
  /\ closer' = [pc |-> "start", result |-> NoResult, ran |-> <<>>]
  /\ UNCHANGED closeFrame

\* The terminator the handler waits for: stop_ollama_service, from its call
\* to its return.
CloseStop ==
  /\ window = "closing" /\ closer.pc = "start"
  /\ \E o \in KillOutcomes :
       closer' = [pc |-> "returned", result |-> StopResult(os, o),
                  ran |-> Append(closer.ran, KillCommand(os, o))]
  /\ UNCHANGED <<window, closeFrame>>

\* Mutant of CloseProceeds: the window stays when the terminator failed.
CloseProceeds_OnlyOnOk ==
  /\ window = "closing" /\ closer.pc = "returned"
  /\ closer.result.kind = "Ok"
  /\ window' = "closed"
  /\ UNCHANGED <<closer, closeFrame>>

\* block_on returns, `let _ =` drops what the terminator returned, the
\* handler returns; it never asked to prevent the close, so the window
\* closes.
CloseProceeds ==
  /\ window = "closing" /\ closer.pc = "returned"
  /\ window' = "closed"
  /\ UNCHANGED <<closer, closeFrame>>

Platforms == {"macos", "windows", "linux"}

InitService ==
  /\ cmd \in {"start_ollama_service", "stop_ollama_service"}
  /\ os \in Platforms
  /\ pc = "start" /\ result = NoResult
  /\ trace = <<>> /\ local = NoLocals
  /\ args = NoArgs /\ request = None /\ fs = {} /\ zipBody = NoBody
  /\ srvVersion = TransportErr /\ srvTags = TransportErr /\ requests = <<>>
  /\ srvResp = TransportErr /\ net = <<>> /\ pos = 0
  /\ buffer = <<>> /\ emitted = <<>> /\ decoded = <<>> /\ alone = NewDecoder
  /\ undelivered = {} /\ other = NoCall /\ window = "open" /\ closer = NoCloser

NextService ==
  \/ MacServe \/ MacOpen
  \/ WinCheckPath \/ WinWhere \/ WinBare
  \/ LinuxWhich \/ LinuxCheckPath \/ LinuxSystemd \/ LinuxServe
  \/ StopService

SpecService == InitService /\ [][NextService]_vars

\* A command of the service runs, and the window is asked to close at any
\* time.
NextClose == NextService \/ CloseRequested \/ CloseStop \/ CloseProceeds

SpecClose == InitService /\ [][NextClose]_vars

(***************************************************************************)
(* download_ollama_zip: the install workflow (Windows only).                *)
(* A path is the sequence of its components from the drive's root, each a   *)
(* text in lower case (the file system compares names ignoring case and     *)
(* resolves ".." before it looks a path up).  fs holds the paths that       *)
(* exist, each a directory or a file.                                       *)
(***************************************************************************)
\* Largest number of entries in the release archive.
MaxEntries == 2

MiB == 1048576

T_local == <<108, 111, 99, 97, 108>>
T_privatepdf == <<112, 114, 105, 118, 97, 116, 101, 112, 100, 102>>
T_ollama == <<111, 108, 108, 97, 109, 97>>
T_temp_zip == <<111, 108, 108, 97, 109, 97, 95, 116, 101, 109, 112, 46, 122, 105, 112>>
T_dotdot == <<46, 46>>

\* %LOCALAPPDATA%, and the paths the installer derives from it.
LocalAppData == <<T_local>>
temp_dir == LocalAppData \o <<T_privatepdf>>
install_path == temp_dir \o <<T_ollama>>
temp_zip_path == temp_dir \o <<T_temp_zip>>
ollama_exe == install_path \o <<T_ollama_exe>>

IsSeparator(c) == c \in {47, 92}

\* The pieces of a text between separators, empty pieces included.
RECURSIVE SplitPath(_, _, _)
SplitPath(t, piece, acc) ==
  IF t = <<>> THEN Append(acc, piece)
  ELSE IF IsSeparator(Head(t)) THEN SplitPath(Tail(t), <<>>, Append(acc, piece))
  ELSE SplitPath(Tail(t), Append(piece, Head(t)), acc)

IsNamePiece(piece) == piece # <<>> /\ piece # <<46>>

\* Path::components() of a relative path: its names and "..", without the
\* empty pieces and the "." pieces.
Components(t) == SelectSeq(SplitPath(t, <<>>, <<>>), IsNamePiece)

\* Whether the path starts with a drive prefix ("c:") or at the root.
HasPrefix(t) ==
  /\ Len(t) >= 2 /\ t[2] = 58
  /\ (t[1] >= 65 /\ t[1] <= 90) \/ (t[1] >= 97 /\ t[1] <= 122)
HasRoot(t) == t # <<>> /\ IsSeparator(t[1])

\* The depth after the first k components: names go down, ".." goes up.
Depth(comps, k) ==
  Cardinality({j \in 1..k : comps[j] # T_dotdot})
  - Cardinality({j \in 1..k : comps[j] = T_dotdot})

\* Mutant of enclosed_name: the stored name is taken as it is.
enclosed_name_Unchecked(name) == Some(Components(name))

\* ZipFile::enclosed_name(): the components of the stored name, None when the
\* name holds a NUL, has a prefix or a root, or climbs above its start.
enclosed_name(name) ==
  IF \E i \in DOMAIN name : name[i] = 0 THEN None
  ELSE IF HasPrefix(name) \/ HasRoot(name) THEN None
  ELSE IF \E k \in 1..Len(Components(name)) : Depth(Components(name), k) < 0 THEN None
  ELSE Some(Components(name))

\* install_path.join(path) as the file system resolves it.
RECURSIVE Resolve(_, _)
Resolve(base, comps) ==
  IF comps = <<>> THEN base
  ELSE IF Head(comps) = T_dotdot
  THEN Resolve(IF base = <<>> THEN base ELSE SubSeq(base, 1, Len(base) - 1), Tail(comps))
  ELSE Resolve(Append(base, to_ascii_lowercase(Head(comps))), Tail(comps))

\* outpath, and outpath.parent(): the path without its last component.
OutPath(comps) == Resolve(install_path, comps)
OutParent(comps) ==
  IF comps = <<>> THEN temp_dir
  ELSE Resolve(install_path, SubSeq(comps, 1, Len(comps) - 1))

Dir(path) == [path |-> path, kind |-> "dir"]
File(path) == [path |-> path, kind |-> "file"]
PathExists(f, path) == Dir(path) \in f \/ File(path) \in f

Prefixes(path) == {SubSeq(path, 1, k) : k \in 1..Len(path)}

\* create_dir_all(path): possible unless a file is in the way; it makes the
\* path and its missing ancestors.
CanMkdirs(f, path) == \A q \in Prefixes(path) : File(q) \notin f
Mkdirs(f, path) == f \cup {Dir(q) : q \in Prefixes(path)}

\* create_dir_all(path) that fails: it makes the directories one by one from
\* the outermost missing one, and those it made before the one that was
\* refused stay.
MkdirsPartial(f, path) ==
  { f \cup {Dir(SubSeq(path, 1, j)) : j \in 1..k} :
      k \in {n \in 0..(Len(path) - 1) : \A j \in 1..n : File(SubSeq(path, 1, j)) \notin f} }

\* File::create(path): possible when the parent is a directory and the path
\* is none; it makes or empties the file.
CanCreate(f, path) ==
  /\ path # <<>> /\ Dir(path) \notin f
  /\ Dir(SubSeq(path, 1, Len(path) - 1)) \in f
Create(f, path) == f \cup {File(path)}

\* What the installer did, in order: the stage it was in, the operation, the
\* path or event it was about, whether it succeeded.
Did(stage, op, what, ok) == [stage |-> stage, op |-> op, what |-> what, ok |-> ok]

\* window.emit(event, payload)
Status(status) == [event |-> "ollama_download_status", status |-> status]
DownloadProgress(downloaded, total) ==
  [event |-> "ollama_download_progress", downloaded |-> downloaded, total |-> total,
   percent |-> Percent(downloaded, total)]
ExtractionProgress(current, total) ==
  [event |-> "ollama_extraction_progress", current |-> current, total |-> total,
   percent |-> Percent(current, total)]

\* window.emit(event, payload): whether the emission succeeds, em being the
\* events the call emitted before it.  Every caller drops the answer with
\* .ok().
emit(em) == (Len(em) + 1) \notin undelivered

installFrame ==
  <<cmd, os, args, request, zipBody, hostVars, probeVars, srvResp, net, pos, buffer, decoded, alone>>

\* The call fails: it returns the error and leaves the rest as it is.
Fail(msg) == Return(Err(msg)) /\ local' = local

\* Stages 1 to 3: the platform check, the "downloading" notification, the
\* install location and the parent directory.
InstallStart ==
  /\ cmd = "download_ollama_zip" /\ pc = "start"
  /\ IF os # "windows"
     THEN /\ Fail("ZIP installation only supported on Windows")
          /\ UNCHANGED <<trace, emitted, fs>>
     ELSE \E env \in BOOLEAN, ok \in BOOLEAN :
       /\ emitted' = Append(emitted, Status("downloading"))
       /\ IF ~env
          THEN /\ ~ok
               /\ trace' = Append(trace, Did("prepare", "emit", Status("downloading"), emit(emitted)))
               /\ Fail("Failed to get LOCALAPPDATA: ") /\ fs' = fs
          ELSE /\ ok => CanMkdirs(fs, temp_dir)
               /\ trace' = trace \o << Did("prepare", "emit", Status("downloading"), emit(emitted)),
                                       Did("prepare", "create_dir_all", temp_dir, ok) >>
               /\ IF ok
                  THEN pc' = "request" /\ result' = result /\ local' = local
                       /\ fs' = Mkdirs(fs, temp_dir)
                  ELSE Fail("Failed to create temp directory: ")
                       /\ fs' \in MkdirsPartial(fs, temp_dir)
  /\ UNCHANGED installFrame

\* Stage 4, the request: its answer, and the temporary file.
InstallRequest ==
  /\ cmd = "download_ollama_zip" /\ pc = "request"
  /\ \E ok \in BOOLEAN :
       LET url == IF args.is_amd_gpu
                  THEN "https://github.com/ollama/ollama/releases/latest/download/ollama-windows-amd64-rocm.zip"
                  ELSE "https://github.com/ollama/ollama/releases/latest/download/ollama-windows-amd64.zip"
       IN
       IF srvResp.err
       THEN /\ ~ok
            /\ trace' = Append(trace, Did("download", "get", url, FALSE))
            /\ Fail("Download request failed: ") /\ fs' = fs
       ELSE IF ~is_success(srvResp.status)
       THEN /\ ~ok
            /\ trace' = Append(trace, Did("download", "get", url, FALSE))
            /\ Return(ErrStatus("Download failed: HTTP ", srvResp.status))
            /\ local' = local /\ fs' = fs
       ELSE /\ ok => CanCreate(fs, temp_zip_path)
            /\ trace' = trace \o << Did("download", "get", url, TRUE),
                                    Did("download", "create", temp_zip_path, ok) >>
            /\ IF ok
               THEN /\ pc' = "download" /\ result' = result
                    /\ fs' = Create(fs, temp_zip_path)
                    /\ local' = [downloaded |-> 0,
                                 total_size |-> unwrap_or(zipBody.content_length, 0)]
               ELSE Fail("Failed to create temp file: ") /\ fs' = fs
  /\ UNCHANGED <<installFrame, emitted>>

\* The sizes a chunk of the download may have, rem bytes being left.
ChunkLens(rem) == {n \in {MiB \div 2, MiB} : n <= rem} \cup ({rem} \ {0})

\* Whether a progress event follows a chunk of n bytes.
ReportsProgress(downloaded, n, total_size) ==
  downloaded % MiB < n \/ downloaded = total_size

\* Mutant of InstallChunk: a chunk that could not be written is dropped and
\* the download goes on.
InstallChunk_KeepsGoing ==
  /\ cmd = "download_ollama_zip" /\ pc = "download"
  /\ \E n \in ChunkLens(zipBody.size - local.downloaded), ok \in BOOLEAN :
       /\ pc' = pc /\ result' = result
       /\ local' = [local EXCEPT !.downloaded = @ + n]
       /\ emitted' = emitted
       /\ trace' = Append(trace, Did("download", "write_all", temp_zip_path, ok))
  /\ UNCHANGED <<installFrame, fs>>

\* Stage 4, one chunk: write it, count it, report progress.
InstallChunk ==
  /\ cmd = "download_ollama_zip" /\ pc = "download"
  /\ \E n \in ChunkLens(zipBody.size - local.downloaded), ok \in BOOLEAN :
       IF ~ok
       THEN /\ trace' = Append(trace, Did("download", "write_all", temp_zip_path, FALSE))
            /\ Fail("Failed to write to temp file: ") /\ emitted' = emitted
       ELSE /\ pc' = pc /\ result' = result
            /\ local' = [local EXCEPT !.downloaded = @ + n]
            /\ IF ReportsProgress(local.downloaded + n, n, local.total_size)
               THEN /\ emitted' = Append(emitted,
                         DownloadProgress(local.downloaded + n, local.total_size))
                    /\ trace' = trace \o
                         << Did("download", "write_all", temp_zip_path, TRUE),
                            Did("download", "emit",
                                DownloadProgress(local.downloaded + n, local.total_size), emit(emitted)) >>
               ELSE /\ emitted' = emitted
                    /\ trace' = Append(trace, Did("download", "write_all", temp_zip_path, TRUE))
  /\ UNCHANGED <<installFrame, fs>>

\* Stage 4, the stream fails.
InstallStreamErr ==
  /\ cmd = "download_ollama_zip" /\ pc = "download"
  /\ trace' = Append(trace, Did("download", "next", temp_zip_path, FALSE))
  /\ Fail("Download stream error: ")
  /\ UNCHANGED <<installFrame, emitted, fs>>

\* Mutant of InstallDownloaded: extraction starts before the stream is over.
InstallDownloaded_Early ==
  /\ cmd = "download_ollama_zip" /\ pc = "download"
  /\ \E okOpen \in BOOLEAN, okDir \in BOOLEAN :
       /\ okDir => okOpen /\ zipBody.is_zip /\ CanMkdirs(fs, install_path)
       /\ emitted' = Append(emitted, Status("extracting"))
       /\ trace' = trace
            \o << Did("extract", "emit", Status("extracting"), emit(emitted)),
                  Did("extract", "open", temp_zip_path, okOpen) >>
            \o (IF okOpen THEN << Did("extract", "ZipArchive::new", temp_zip_path, zipBody.is_zip) >>
                ELSE <<>>)
            \o (IF okOpen /\ zipBody.is_zip
                THEN << Did("extract", "create_dir_all", install_path, okDir) >> ELSE <<>>)
       /\ IF ~okOpen THEN Fail("Failed to open ZIP file: ") /\ fs' = fs
          ELSE IF ~zipBody.is_zip THEN Fail("Failed to read ZIP archive: ") /\ fs' = fs
          ELSE IF ~okDir THEN /\ Fail("Failed to create installation directory: ")
                              /\ fs' \in MkdirsPartial(fs, install_path)
          ELSE /\ pc' = "extract" /\ result' = result
               /\ fs' = Mkdirs(fs, install_path)
               /\ local' = [downloaded |-> local.downloaded, total_size |-> local.total_size,
                            i |-> 0, total_files |-> Len(zipBody.archive)]
  /\ UNCHANGED installFrame

\* The stream is over: the "extracting" notification, then stage 5 up to the
\* loop: open the temporary file as an archive, make the install directory.
InstallDownloaded ==
  /\ cmd = "download_ollama_zip" /\ pc = "download"
  /\ local.downloaded = zipBody.size
  /\ \E okOpen \in BOOLEAN, okDir \in BOOLEAN :
       /\ okDir => okOpen /\ zipBody.is_zip /\ CanMkdirs(fs, install_path)
       /\ emitted' = Append(emitted, Status("extracting"))
       /\ trace' = trace
            \o << Did("extract", "emit", Status("extracting"), emit(emitted)),
                  Did("extract", "open", temp_zip_path, okOpen) >>
            \o (IF okOpen THEN << Did("extract", "ZipArchive::new", temp_zip_path, zipBody.is_zip) >>
                ELSE <<>>)
            \o (IF okOpen /\ zipBody.is_zip
                THEN << Did("extract", "create_dir_all", install_path, okDir) >> ELSE <<>>)
       /\ IF ~okOpen THEN Fail("Failed to open ZIP file: ") /\ fs' = fs
          ELSE IF ~zipBody.is_zip THEN Fail("Failed to read ZIP archive: ") /\ fs' = fs
          ELSE IF ~okDir THEN /\ Fail("Failed to create installation directory: ")
                              /\ fs' \in MkdirsPartial(fs, install_path)
          ELSE /\ pc' = "extract" /\ result' = result
               /\ fs' = Mkdirs(fs, install_path)
               /\ local' = [downloaded |-> local.downloaded, total_size |-> local.total_size,
                            i |-> 0, total_files |-> Len(zipBody.archive)]
  /\ UNCHANGED installFrame

\* file.name().ends_with('/')
IsDirEntry(name) == name # <<>> /\ name[Len(name)] = 47

\* Whether a progress event follows the entry at index i.
ReportsExtraction(i, total_files) == i % 10 = 0 \/ i = total_files - 1

\* The end of a turn of the extraction loop that did not fail.
EntryDone ==
  /\ pc' = pc /\ result' = result
  /\ local' = [local EXCEPT !.i = @ + 1]
  /\ emitted' = IF ReportsExtraction(local.i, local.total_files)
                THEN Append(emitted, ExtractionProgress(local.i + 1, local.total_files))
                ELSE emitted

ProgressDid ==
  IF ReportsExtraction(local.i, local.total_files)
  THEN << Did("extract", "emit", ExtractionProgress(local.i + 1, local.total_files),
              emit(emitted)) >>
  ELSE <<>>

\* A directory entry stored under the components comps.
ExtractDir(comps) ==
  \E ok \in BOOLEAN :
    /\ ok => CanMkdirs(fs, OutPath(comps))
    /\ IF ok
       THEN /\ fs' = Mkdirs(fs, OutPath(comps))
            /\ trace' = trace \o << Did("extract", "by_index", local.i, TRUE),
                                    Did("extract", "create_dir_all", OutPath(comps), TRUE) >>
                              \o ProgressDid
            /\ EntryDone
       ELSE /\ fs' \in MkdirsPartial(fs, OutPath(comps)) /\ emitted' = emitted
            /\ trace' = trace \o << Did("extract", "by_index", local.i, TRUE),
                                    Did("extract", "create_dir_all", OutPath(comps), FALSE) >>
            /\ Fail("Failed to create directory: ")

\* A file entry stored under the components comps: its parent directory,
\* the file, its content.
ExtractFile(comps) ==
  \E okParent \in BOOLEAN, okCreate \in BOOLEAN, okCopy \in BOOLEAN :
    /\ okParent => CanMkdirs(fs, OutParent(comps))
    /\ okCreate => okParent /\ CanCreate(Mkdirs(fs, OutParent(comps)), OutPath(comps))
    /\ okCopy => okCreate
    /\ IF okCreate THEN fs' = Create(Mkdirs(fs, OutParent(comps)), OutPath(comps))
       ELSE IF okParent THEN fs' = Mkdirs(fs, OutParent(comps))
       ELSE fs' \in MkdirsPartial(fs, OutParent(comps))
    /\ trace' = trace
         \o << Did("extract", "by_index", local.i, TRUE),
               Did("extract", "create_dir_all", OutParent(comps), okParent) >>
         \o (IF okParent THEN << Did("extract", "create", OutPath(comps), okCreate) >> ELSE <<>>)
         \o (IF okCreate THEN << Did("extract", "copy", OutPath(comps), okCopy) >> ELSE <<>>)
         \o (IF okCopy THEN ProgressDid ELSE <<>>)
    /\ IF ~okParent THEN Fail("Failed to create parent directory: ") /\ emitted' = emitted
       ELSE IF ~okCreate THEN Fail("Failed to create output file: ") /\ emitted' = emitted
       ELSE IF ~okCopy THEN Fail("Failed to extract file: ") /\ emitted' = emitted
       ELSE EntryDone

\* Stage 5, one turn of the loop: the entry at index i.
InstallEntry ==
  /\ cmd = "download_ollama_zip" /\ pc = "extract"
  /\ local.i < local.total_files
  /\ LET entry == zipBody.archive[local.i + 1] IN
       IF ~entry.readable
       THEN /\ trace' = Append(trace, Did("extract", "by_index", local.i, FALSE))
            /\ Fail("Failed to access ZIP entry: ")
            /\ fs' = fs /\ emitted' = emitted
       ELSE IF enclosed_name(entry.name) = None
       THEN /\ trace' = Append(trace, Did("extract", "by_index", local.i, TRUE))
            /\ pc' = pc /\ result' = result
            /\ local' = [local EXCEPT !.i = @ + 1]
            /\ fs' = fs /\ emitted' = emitted
       ELSE IF IsDirEntry(entry.name)
       THEN ExtractDir(enclosed_name(entry.name)[1])
       ELSE ExtractFile(enclosed_name(entry.name)[1])
  /\ UNCHANGED installFrame

\* Mutant of Verified: the installation counts as verified whatever exists.
Verified_Always(f) == TRUE

\* ollama_exe.exists()
Verified(f) == PathExists(f, ollama_exe)

\* remove_file(&temp_zip_path), when it succeeds.
Removed(f, ok) == IF ok THEN f \ {File(temp_zip_path)} ELSE f

\* Stages 6 and 7: delete the temporary file (a failure is dropped), verify
\* that ollama.exe exists, notify "completed".
InstallFinish ==
  /\ cmd = "download_ollama_zip" /\ pc = "extract"
  /\ local.i = local.total_files
  /\ \E ok \in BOOLEAN :
       /\ fs' = Removed(fs, ok)
       /\ IF Verified(Removed(fs, ok))
          THEN /\ trace' = trace \o << Did("cleanup", "remove_file", temp_zip_path, ok),
                                       Did("verify", "exists", ollama_exe, TRUE),
                                       Did("verify", "emit", Status("completed"), emit(emitted)) >>
               /\ emitted' = Append(emitted, Status("completed"))
               /\ Return(Ok("Installed to: ")) /\ local' = local
          ELSE /\ trace' = trace \o << Did("cleanup", "remove_file", temp_zip_path, ok),
                                       Did("verify", "exists", ollama_exe, FALSE) >>
               /\ emitted' = emitted
               /\ Fail("Extraction failed: ollama.exe not found")
  /\ UNCHANGED installFrame

\* --- what the installer may meet -------------------------------------------
Entry(name) == [name |-> name, readable |-> TRUE]

\* Stored names: the executable (in either case), a directory, a file in it,
\* a path that stays inside through "..", and names that leave the install
\* directory through "..", a root, a drive prefix or a backslash; a name with
\* a NUL; an empty name; an entry that cannot be read.
ArchiveEntries ==
  { Entry(T_ollama_exe),
    Entry(<<79, 108, 108, 97, 109, 97, 46, 69, 88, 69>>),
    Entry(<<108, 105, 98, 47>>),
    Entry(<<108, 105, 98, 47, 97>>),
    Entry(<<108, 105, 98, 47, 46, 46, 47, 121>>),
    Entry(<<46, 46, 47, 120>>),
    Entry(<<108, 105, 98, 47, 46, 46, 47, 46, 46, 47, 120>>),
    Entry(<<47, 120>>),
    Entry(<<99, 58, 120>>),
    Entry(<<46, 46, 92, 120>>),
    Entry(<<120, 0>>),
    Entry(<<>>),
    [name |-> <<120>>, readable |-> FALSE] }

ZipBody(size, content_length, is_zip, archive) ==
  [size |-> size, content_length |-> content_length, is_zip |-> is_zip,
   archive |-> archive]

\* Downloads of several sizes, with and without a Content-Length: an empty
\* body, a page that is no archive, an archive holding the executable.
DownloadBodies ==
  {ZipBody(0, cl, FALSE, <<>>) : cl \in {None, Some(0)}}
  \cup {ZipBody(22, cl, FALSE, <<>>) : cl \in {None, Some(22)}}
  \cup UNION { {ZipBody(sz, cl, TRUE, <<Entry(T_ollama_exe)>>) : cl \in {None, Some(sz)}} :
                sz \in {MiB, MiB + MiB \div 2, 2 * MiB} }

\* Archives of every content, downloaded in one piece.
ArchiveBodies ==
  {ZipBody(22, Some(22), TRUE, a) : a \in SeqUpTo(ArchiveEntries, MaxEntries)}

\* The file system before the call: empty, or holding an earlier install.
InitialFs == { {}, Mkdirs({}, install_path) \cup {File(ollama_exe)} }

\* The installer about to start, and what it will meet.
InstallInputs ==
  /\ cmd = "download_ollama_zip"
  /\ pc = "start" /\ result = NoResult
  /\ trace = <<>> /\ local = NoLocals /\ request = None
  /\ srvVersion = TransportErr /\ srvTags = TransportErr /\ requests = <<>>
  /\ net = <<>> /\ pos = 0 /\ buffer = <<>> /\ emitted = <<>> /\ decoded = <<>>
  /\ alone = NewDecoder
  /\ \/ /\ os \in {"macos", "linux"}
        /\ args = [is_amd_gpu |-> FALSE] /\ srvResp = TransportErr
        /\ zipBody = NoBody /\ fs = {}
     \/ /\ os = "windows"
        /\ args \in {[is_amd_gpu |-> b] : b \in BOOLEAN}
        /\ fs \in InitialFs
        /\ \/ srvResp \in {TransportErr, Response(404)} /\ zipBody = NoBody
           \/ srvResp = Response(200) /\ zipBody \in DownloadBodies
     \/ /\ os = "windows"
        /\ args = [is_amd_gpu |-> FALSE]
        /\ fs \in InitialFs
        /\ srvResp = Response(200) /\ zipBody \in ArchiveBodies

InitInstall == InstallInputs /\ undelivered = {} /\ other = NoCall /\ window = "open" /\ closer = NoCloser

NextInstall ==
  \/ InstallStart \/ InstallRequest \/ InstallChunk \/ InstallStreamErr
  \/ InstallDownloaded \/ InstallEntry \/ InstallFinish

SpecInstall == InitInstall /\ [][NextInstall]_vars

\* Bodies of the answer to ollama_chat: a reply, a reply with more members,
\* the array forms, a message without role, content that is no string, no
\* message, text that is no JSON, content that is no UTF-8; a reply beside
\* members that hold a lone surrogate, a byte that is no UTF-8 and a number
\* beyond f64; a repeated role; a repeated message.
ChatBodies ==
  { Obj1(K_message, Obj(<<Member(K_role, Quoted(<<114>>)), Member(K_content, Quoted(<<97>>))>>)),
    Obj(<<Member(K_done, T_true),
          Member(K_message, Obj(<<Member(K_content, Quoted(<<195, 169>>)),
                                  Member(K_role, Quoted(<<114>>)),
                                  Member(K_done, T_true)>>))>>),
    <<91, 91>> \o Quoted(<<114>>) \o <<44>> \o Quoted(<<98>>) \o <<93, 93>>,
    <<91, 91>> \o Quoted(<<114>>) \o <<93, 93>>,
    Obj1(K_message, Obj1(K_content, Quoted(<<97>>))),
    Obj1(K_message, Obj(<<Member(K_role, Quoted(<<114>>)), Member(K_content, <<49>>)>>)),
    <<123, 125>>,
    <<123, 34>>,
    Obj1(K_message, Obj(<<Member(K_role, Quoted(<<114>>)), Member(K_content, Quoted(<<195>>))>>)),
    Obj(<<Member(K_message, Obj(<<Member(K_role, Quoted(<<114>>)),
                                  Member(K_content, Quoted(<<97>>))>>)),
          Member(K_done, Quoted(<<92, 117, 100, 56, 48, 48, 195>>)),
          Member(K_total, <<91, 49, 101, 57, 57, 57, 93>>)>>),
    Obj1(K_message, Obj(<<Member(K_role, Quoted(<<114>>)), Member(K_role, Quoted(<<114>>)),
                          Member(K_content, Quoted(<<97>>))>>)),
    Obj(<<Member(K_message, Obj(<<Member(K_role, Quoted(<<114>>)),
                                  Member(K_content, Quoted(<<97>>))>>)),
          Member(K_message, Obj(<<Member(K_role, Quoted(<<114>>)),
                                  Member(K_content, Quoted(<<98>>))>>))>>) }

\* Bodies of the answer to ollama_embedding: a vector of a fraction, a
\* negative integer and a number with an exponent; the empty vector; the
\* array form; more members, one of them a number beyond f64; an element
\* beyond f64; an element that is no number; a repeated member; no member;
\* text that is no JSON.
EmbeddingBodies ==
  { Obj1(K_embedding, <<91, 48, 46, 53, 44, 45, 50, 44, 49, 101, 50, 93>>),
    Obj1(K_embedding, <<91, 93>>),
    <<91, 91, 48, 46, 49, 93, 93>>,
    Obj(<<Member(K_name, Quoted(<<109>>)), Member(K_embedding, <<91, 55, 93>>),
          Member(K_total, <<49, 101, 57, 57, 57>>)>>),
    Obj1(K_embedding, <<91, 49, 101, 57, 57, 57, 93>>),
    Obj1(K_embedding, <<91, 49, 44, 110, 117, 108, 108, 93>>),
    Obj(<<Member(K_embedding, <<91, 49, 93>>), Member(K_embedding, <<91, 50, 93>>)>>),
    <<123, 125>>,
    <<123, 34>> }

EmbeddingOutcomes ==
  {TransportErr}
  \cup {[err |-> FALSE, status |-> c, bodyErr |-> TRUE, body |-> <<>>] : c \in {200, 404}}
  \cup {[err |-> FALSE, status |-> c, bodyErr |-> FALSE, body |-> b] :
          c \in {200, 404}, b \in EmbeddingBodies}

\* What a caller passes to ollama_embedding.
EmbeddingArgs == [model |-> ModelName, text |-> <<97>>]

ChatOutcomes ==
  {TransportErr}
  \cup {[err |-> FALSE, status |-> c, bodyErr |-> TRUE, body |-> <<>>] : c \in {200, 404}}
  \cup {[err |-> FALSE, status |-> c, bodyErr |-> FALSE, body |-> b] :
          c \in {200, 404}, b \in ChatBodies}

\* What a caller passes for the options: absent, or a number.
ChatArgs(t, m, p) ==
  [model |-> ModelName, messages |-> <<[role |-> <<117>>, content |-> <<97>>]>>,
   temperature |-> t, max_tokens |-> m, top_p |-> p]
NoOptions == ChatArgs(None, None, None)

Temperatures ==
  {None, Some(Frac(0, 1)), Some(Frac(1, 2)), Some(Frac(7, 10)), Some(Frac(2, 1)),
   Some(Frac(0 - 1, 2)), Some(Frac(16777217, 1))}
TopPs == {None, Some(Frac(1, 4)), Some(Frac(1, 1))}
MaxTokens == {None, Some(1), Some(8192)}

ChatArgsSet == {ChatArgs(t, m, p) : t \in Temperatures, m \in MaxTokens, p \in TopPs}

\* The platform, process and install part of the state while no launcher,
\* terminator or installer runs.
HostIdle == undelivered = {} /\ other = NoCall /\ window = "open" /\ closer = NoCloser

PlatformIdle ==
  /\ os = "windows" /\ trace = <<>> /\ local = NoLocals /\ fs = {}
  /\ zipBody = NoBody

EnvIdle == PlatformIdle /\ HostIdle

ExtIdle == args = NoArgs /\ request = None /\ EnvIdle

\* The stream part of the state while no streaming command runs.
StreamIdle ==
  /\ srvResp = TransportErr /\ net = <<>> /\ pos = 0
  /\ buffer = <<>> /\ emitted = <<>> /\ decoded = <<>> /\ alone = NewDecoder

InitProbe ==
  /\ cmd \in {"check_ollama_status", "ping_ollama"}
  /\ pc = "start" /\ result = NoResult
  /\ srvVersion \in VersionOutcomes
  /\ srvTags \in (IF cmd = "ping_ollama" THEN {TransportErr} ELSE TagsOutcomes)
  /\ requests = <<>>
  /\ StreamIdle
  /\ ExtIdle

NextProbe == CheckStatusVersion \/ CheckStatusTags \/ CheckStatusBody \/ PingOllama

SpecProbe == InitProbe /\ [][NextProbe]_vars

\* The probe part of the state while no probe runs.
ProbeIdle == srvVersion = TransportErr /\ srvTags = TransportErr /\ requests = <<>>

\* A streaming command about to start.
StreamStart ==
  /\ cmd \in {"ollama_chat_stream", "download_ollama_model"}
  /\ pc = "start" /\ result = NoResult
  /\ ProbeIdle
  /\ pos = 0 /\ buffer = <<>> /\ emitted = <<>> /\ decoded = <<>> /\ alone = NewDecoder
  /\ args = (IF cmd = "ollama_chat_stream" THEN NoOptions ELSE NoArgs)
  /\ request = None
  /\ PlatformIdle

InitStream ==
  /\ StreamStart
  /\ \/ srvResp \in {TransportErr, Response(404)} /\ net = <<>>
     \/ srvResp = Response(200) /\ net \in Streams(cmd)
  /\ HostIdle

NextStream ==
  \/ ChatStreamSend \/ ChatStreamNext \/ ChatStreamErr \/ ChatStreamEnd
  \/ PullSend \/ PullNext \/ PullErr \/ PullEnd

SpecStream == InitStream /\ [][NextStream]_vars

\* The two chat commands with every choice of options, and the embedding
\* command; the stream of the streaming chat is empty or one line.
InitChat ==
  /\ cmd \in {"ollama_chat", "ollama_chat_stream", "ollama_embedding"}
  /\ pc = "start" /\ result = NoResult
  /\ ProbeIdle
  /\ args \in (IF cmd = "ollama_embedding" THEN {EmbeddingArgs} ELSE ChatArgsSet)
  /\ request = None
  /\ IF cmd = "ollama_chat"
     THEN srvResp \in ChatOutcomes /\ net = <<>>
     ELSE IF cmd = "ollama_embedding"
     THEN srvResp \in EmbeddingOutcomes /\ net = <<>>
     ELSE \/ srvResp \in {TransportErr, Response(404)} /\ net = <<>>
          \/ /\ srvResp = Response(200)
             /\ net \in {<<>>, Obj1(K_message, Obj1(K_content, Quoted(<<97>>))) \o <<10>>}
  /\ pos = 0 /\ buffer = <<>> /\ emitted = <<>> /\ decoded = <<>> /\ alone = NewDecoder
  /\ EnvIdle

NextChat ==
  \/ OllamaChat \/ OllamaChatBody \/ OllamaEmbedding \/ OllamaEmbeddingBody
  \/ ChatStreamSend \/ ChatStreamNext \/ ChatStreamErr \/ ChatStreamEnd

SpecChat == InitChat /\ [][NextChat]_vars

\* How many of a call's first emissions may fail.
MaxUndelivered == 2

\* The streams of the event runs: content, content with an error, a record
\* without content or status, text that is no JSON.
EventLines(c) ==
  IF c = "ollama_chat_stream"
  THEN { Obj1(K_message, Obj1(K_content, Quoted(<<97>>))),
         Obj(<<Member(K_message, Obj1(K_content, Quoted(<<99>>))),
               Member(K_error, Quoted(<<121>>))>>),
         Obj1(K_done, T_true),
         <<123, 34>> }
  ELSE { Obj(<<Member(K_status, Quoted(<<115>>)), Member(K_total, <<52>>),
               Member(K_completed, <<49>>)>>),
         Obj(<<Member(K_status, Quoted(<<115>>)), Member(K_error, Quoted(<<121>>))>>),
         Obj1(K_error, <<49>>),
         <<123, 34>> }

EventStreams(c) ==
  { Concat([i \in DOMAIN ls |-> ls[i] \o <<10>>]) : ls \in SeqUpTo(EventLines(c), MaxLines) }

\* The three commands that emit, on a window that may refuse any of the
\* first MaxUndelivered emissions of the call.
InitEvents ==
  /\ undelivered \in SUBSET (1..MaxUndelivered)
  /\ other = NoCall /\ window = "open" /\ closer = NoCloser
  /\ \/ /\ StreamStart
        /\ \/ srvResp \in {TransportErr, Response(404)} /\ net = <<>>
           \/ srvResp = Response(200) /\ net \in EventStreams(cmd)
     \/ InstallInputs

NextEvents == NextStream \/ NextInstall

SpecEvents == InitEvents /\ [][NextEvents]_vars

\* The streams of two calls that run together: two records, or a record
\* and a record with an error.
PairStreams(c) ==
  IF c = "ollama_chat_stream"
  THEN { Obj1(K_message, Obj1(K_content, Quoted(<<97>>))) \o <<10>>
           \o Obj1(K_message, Obj1(K_content, Quoted(<<98>>))) \o <<10>>,
         Obj1(K_error, Quoted(<<120>>)) \o <<10>> }
  ELSE { Obj1(K_status, Quoted(<<115>>)) \o <<10>>
           \o Obj1(K_status, Quoted(<<116>>)) \o <<10>>,
         Obj1(K_error, Quoted(<<120>>)) \o <<10>> }

\* Two streaming calls, the second one already past its request.
InitPair ==
  /\ StreamStart
  /\ srvResp = Response(200) /\ net \in PairStreams(cmd)
  /\ undelivered = {} /\ window = "open" /\ closer = NoCloser
  /\ other \in UNION { {Call(c, bytes) : bytes \in PairStreams(c)} :
                          c \in {"ollama_chat_stream", "download_ollama_model"} }

NextPair == NextStream \/ OtherNext \/ OtherEnd

SpecPair == InitPair /\ [][NextPair]_vars
(***************************************************************************)
(* What the claims speak of.                                                *)
(***************************************************************************)
Streaming == cmd \in {"ollama_chat_stream", "download_ollama_model"}
Returned == pc = "returned"
ReturnedOk == pc = "returned" /\ result.kind = "Ok"
ServerError == pc = "returned" /\ result.kind = "Err" /\ result.msg = "Ollama error: "

\* The decoder loop of command c run on the whole stream as one chunk.
OneChunk(c, bytes) ==
  IF c = "ollama_chat_stream" THEN ChatChunk(bytes, NewDecoder)
  ELSE PullChunk(bytes, NewDecoder)

\* The lines of a byte stream that end in a line break, as the server wrote
\* them (decoded as a whole, no chunk boundary inside).
LineBreaks(bytes) == SelectSeq([i \in 1..Len(bytes) |-> i], LAMBDA i : bytes[i] = 10)
ServerLine(bytes, k) ==
  from_utf8_lossy(SubSeq(bytes, IF k = 1 THEN 1 ELSE LineBreaks(bytes)[k - 1] + 1,
                         LineBreaks(bytes)[k] - 1))
CompleteLines(bytes) == [k \in 1..Len(LineBreaks(bytes)) |-> ServerLine(bytes, k)]

IsValidRecord(line) == ~TrimIsEmpty(line) /\ from_str(line).ok
RecordOf(line) == from_str(line).v

\* The valid records of the stream, in their order.
ValidRecords(bytes) ==
  LET valid == SelectSeq(CompleteLines(bytes), IsValidRecord)
  IN  [k \in 1..Len(valid) |-> RecordOf(valid[k])]

\* message.content of a record, None when it has none.
ContentOf(data) == as_str(Index(Index(data, K_message), K_content))
HasContent(data) == ContentOf(data) # None
HasError(data) == Get(data, K_error) # None

\* The concatenation of message.content over records.
ReplyText(records) ==
  LET with == SelectSeq(records, HasContent)
  IN  Concat([k \in 1..Len(with) |-> ContentOf(with[k])[1]])

EmittedText == Concat([k \in 1..Len(emitted) |-> emitted[k].content])

(***************************************************************************)
(* C1..C6: the NDJSON decoder and the streaming chat (SpecStream).          *)
(***************************************************************************)
\* C1: whatever the chunks the stream arrives in, a call that read its stream
\* to the end, or to a server-reported error, has parsed the same records, in
\* the same order, as the decoder loop run on the whole stream as one chunk.
C1_ChunkingIndependent ==
  (Streaming /\ (ReturnedOk \/ ServerError)) => decoded = OneChunk(cmd, net).decoded

\* C2: a stream in which blank or malformed lines stand between valid records
\* and that was read to its end yields exactly the valid records, in order.
C2_ExactlyValidRecords ==
  (Streaming /\ ReturnedOk
     /\ \E k \in DOMAIN CompleteLines(net) : ~IsValidRecord(CompleteLines(net)[k]))
  => decoded = ValidRecords(net)

\* C3: when the streaming chat ends without an error record, the chunks were
\* emitted in the order of their records and their contents, concatenated,
\* are the concatenation of message.content over the records of the stream.
C3_ContentsConcatenate ==
  (cmd = "ollama_chat_stream" /\ ReturnedOk)
  => /\ Len(emitted) = Len(SelectSeq(decoded, HasContent))
     /\ EmittedText = ReplyText(ValidRecords(net))

\* C4: in the streaming chat a record with an error field is the last one
\* parsed: the call has returned Err with that record's error text, and no
\* chunk was emitted for any line after it.
C4_ErrorRecordFailsCall ==
  cmd = "ollama_chat_stream" =>
    /\ \A i \in DOMAIN decoded :
         HasError(decoded[i]) =>
           /\ i = Len(decoded)
           /\ pc = "returned"
           /\ result = ErrText("Ollama error: ",
                               unwrap_or(as_str(Index(decoded[i], K_error)),
                                         T_unknown_error))
    /\ Len(emitted) = Len(SelectSeq(decoded, HasContent))
    /\ (ServerError => HasError(decoded[Len(decoded)]))

\* A call failed on an error record while a complete, valid line that
\* followed it was still in the buffer.
C4_Witness ==
  /\ cmd = "ollama_chat_stream" /\ ServerError
  /\ find(buffer, 10) > 0
  /\ IsValidRecord(SubSeq(buffer, 1, find(buffer, 10) - 1))
  /\ HasContent(RecordOf(SubSeq(buffer, 1, find(buffer, 10) - 1)))

\* C5: in the streaming chat no chunk is emitted after a chunk with done=true.
C5_DoneIsTerminal ==
  cmd = "ollama_chat_stream" =>
    \A i \in DOMAIN emitted : emitted[i].done => i = Len(emitted)

\* C6: a call that read its stream to the end returns Ok with what follows
\* the last line break still unparsed in its buffer: the records parsed are
\* as many as the valid lines that end in a line break, and no event was
\* emitted for anything else.
C6_UnterminatedTailDiscarded ==
  (Streaming /\ ReturnedOk) =>
    /\ pos = Len(net)
    /\ find(buffer, 10) = 0
    /\ Len(buffer) = Len(from_utf8_lossy(net)) - (IF LineBreaks(net) = <<>> THEN 0
         ELSE Len(from_utf8_lossy(SubSeq(net, 1, LineBreaks(net)[Len(LineBreaks(net))]))))
    /\ Len(decoded) = Len(ValidRecords(net))
    /\ Len(emitted) = (IF cmd = "ollama_chat_stream"
                       THEN Len(SelectSeq(ValidRecords(net), HasContent))
                       ELSE Len(ValidRecords(net)))

\* A stream ended with a whole valid record, cut off from its line break,
\* left in the buffer, after at least one record was parsed.
C6_Witness ==
  /\ Streaming /\ ReturnedOk
  /\ IsValidRecord(buffer)
  /\ decoded # <<>>

(***************************************************************************)
(* C7..C10: the service probes (SpecProbe).                                 *)
(***************************************************************************)
CheckReturned == cmd = "check_ollama_status" /\ pc = "returned"
VersionFailed == srvVersion.err \/ ~is_success(srvVersion.status)
TagsFailed ==
  \/ srvTags.err
  \/ ~is_success(srvTags.status)
  \/ srvTags.bodyErr
  \/ ~from_slice(srvTags.body).ok

\* C7: when the version request fails in transport or answers a non-success
\* status, check_ollama_status returns {running: false, models_available:
\* false, models: []} and the model list is never requested.
C7_VersionFailure ==
  (cmd = "check_ollama_status" /\ VersionFailed) =>
    /\ \A i \in DOMAIN requests : requests[i] # "tags"
    /\ pc # "tags"
    /\ (pc = "returned" => result = Ok(OllamaStatus(FALSE, FALSE, <<>>)))

\* The version request answered 404 while the model list would have named a
\* model.
C7_Witness ==
  /\ CheckReturned /\ ~srvVersion.err /\ srvVersion.status = 404
  /\ ~TagsFailed /\ ModelsOf(from_slice(srvTags.body).v) # <<>>
  /\ requests = <<"version">>

\* C8: when the version request succeeds and the model-list request fails
\* (transport, status, or a body that is no JSON), check_ollama_status
\* returns {running: true, models_available: false, models: []}.
C8_TagsFailure ==
  (CheckReturned /\ ~VersionFailed /\ TagsFailed) =>
    result = Ok(OllamaStatus(TRUE, FALSE, <<>>))

\* The model list answered a success status with a body that is no JSON.
C8_Witness ==
  /\ CheckReturned /\ ~VersionFailed
  /\ ~srvTags.err /\ is_success(srvTags.status) /\ ~srvTags.bodyErr
  /\ srvTags.body # <<>> /\ ~from_slice(srvTags.body).ok
  /\ requests = <<"version", "tags">>

\* C9: in every status check_ollama_status returns, models_available is true
\* exactly when the models list is not empty.
C9_AvailableIffNonEmpty ==
  CheckReturned =>
    /\ result.kind = "Ok"
    /\ result.value.models_available = (result.value.models # <<>>)

\* The model list parsed and had entries, none of them with a string name.
C9_Witness ==
  /\ CheckReturned /\ ~VersionFailed /\ ~TagsFailed
  /\ unwrap_or(as_array(Index(from_slice(srvTags.body).v, K_models)), <<>>) # <<>>
  /\ result.value.models = <<>>

\* C10: the probes return Ok on every outcome: check_ollama_status a status,
\* ping_ollama a boolean that is true exactly when the version request
\* answered a success status.
C10_ProbesNeverFail ==
  (cmd \in {"check_ollama_status", "ping_ollama"} /\ pc = "returned") =>
    /\ result.kind = "Ok"
    /\ cmd = "ping_ollama" => result.value = ~VersionFailed
    /\ cmd = "check_ollama_status" =>
         /\ result.value.running \in BOOLEAN
         /\ result.value.models_available \in BOOLEAN
         /\ result.value.models \in Seq(Seq(Nat))

\* ping_ollama returned false on a transport error.
C10_Witness ==
  /\ cmd = "ping_ollama" /\ pc = "returned" /\ srvVersion.err
  /\ result = Ok(FALSE)

(***************************************************************************)
(* C11: the options of a chat request (SpecChat).                           *)
(***************************************************************************)
ChatSent == cmd \in {"ollama_chat", "ollama_chat_stream"} /\ request # None

\* The value the claim gives an option: the caller's, or the default.
Wanted(o, default) == IF o = None THEN default ELSE o[1]

\* C11: in the request of ollama_chat and of ollama_chat_stream, each of
\* temperature, top_p and num_predict is the caller's value when supplied and
\* otherwise 0.2, 0.9 and 4096, whatever the other options are;
\* repeat_penalty is 1.1 and repeat_last_n is 64.
C11_OptionDefaults ==
  ChatSent =>
    /\ FracEq(request[1].options.temperature, Wanted(args.temperature, Frac(2, 10)))
    /\ FracEq(request[1].options.top_p, Wanted(args.top_p, Frac(9, 10)))
    /\ request[1].options.num_predict = Wanted(args.max_tokens, 4096)
    /\ FracEq(request[1].options.repeat_penalty, Frac(11, 10))
    /\ request[1].options.repeat_last_n = 64

(***************************************************************************)
(* C12..C16: the launcher and the terminator (SpecService).                 *)
(***************************************************************************)
Launching == cmd = "start_ollama_service"
Stopping == cmd = "stop_ollama_service"

\* A launch attempt: the spawn of the server, the application or the service
\* manager's start command.
IsLaunch(e) == e.op = "spawn"
Launched(e) == e.op = "spawn" /\ e.ok

\* What a command of the trace answered.
OutcomeOf(e) == [ran |-> e.ok, code |-> e.code, out |-> e.out]

\* C12: on every platform a call of start_ollama_service whose launch
\* attempts all failed returns an error, never Ok.
C12_AllFailedIsError ==
  (Launching /\ Returned /\ \A i \in DOMAIN trace : ~Launched(trace[i]))
    => result.kind = "Err"

\* The place of a trace entry in the platform's priority order.  On Linux
\* the lookups that resolve the executable (0) come before the two launch
\* strategies.
IndexOfPath(paths, e) == CHOOSE k \in DOMAIN paths : e.path = Named(paths[k])
IndexOfProg(paths, e) == CHOOSE k \in DOMAIN paths : e.prog = Named(paths[k])

Rank(platform, e) ==
  IF platform = "macos" THEN (IF e.prog = Named("ollama") THEN 1 ELSE 2)
  ELSE IF platform = "windows" THEN
    IF e.op = "exists" THEN IndexOfPath(ollama_exe_paths, e)
    ELSE IF e.op = "output" THEN 4
    ELSE IF e.prog = Named("ollama") THEN 5
    ELSE IF \E k \in DOMAIN ollama_exe_paths : e.prog = Named(ollama_exe_paths[k])
    THEN IndexOfProg(ollama_exe_paths, e)
    ELSE 4
  ELSE
    IF e.op = "exists" \/ e.prog = Named("which") THEN 0
    ELSE IF e.prog = Named("systemctl") THEN 1
    ELSE 2

\* C13: the strategies are tried in the platform's priority order and the
\* first success wins: a successful launch is the last thing the call does
\* and the call returns Ok; an entry of the trace comes after an entry of
\* every earlier strategy (which therefore failed) and never before one; on
\* Windows the managed-install path is probed first, and when no launch
\* succeeded the call returns the not-found error.
C13_PriorityOrder ==
  Launching =>
    /\ \A i \in DOMAIN trace :
         Launched(trace[i]) => i = Len(trace) /\ Returned /\ result.kind = "Ok"
    /\ \A i \in DOMAIN trace, j \in DOMAIN trace :
         i < j => Rank(os, trace[i]) <= Rank(os, trace[j])
    /\ \A i \in DOMAIN trace : \A r \in 1..(Rank(os, trace[i]) - 1) :
         \E j \in 1..(i - 1) : Rank(os, trace[j]) = r
    /\ (os = "windows" /\ trace # <<>>) =>
         trace[1] \in {Exists(Named(ollama_exe_paths[1]), b) : b \in BOOLEAN}
    /\ (os = "windows" /\ Returned /\ \A i \in DOMAIN trace : ~Launched(trace[i]))
         => /\ result = Err("Could not find or start Ollama. Please: 1. Install Ollama ...")
            /\ \A r \in 1..5 : \E j \in DOMAIN trace : Rank(os, trace[j]) = r

\* A Windows call in which the managed-install path existed but did not
\* start, and the path printed by `where` did.
C13_Witness ==
  /\ Launching /\ os = "windows" /\ Returned /\ result.kind = "Ok"
  /\ trace[1].ok /\ ~trace[2].ok
  /\ Rank(os, trace[Len(trace)]) = 4

\* C14: on Linux, when `which` resolves no executable and none of the common
\* paths exists, the call returns the not-installed error at once: the trace
\* holds the lookup and the four probes and nothing else, so neither
\* systemctl nor a spawn was run.
C14_NotInstalledStops ==
  ( /\ Launching /\ os = "linux" /\ Len(trace) >= 1 + Len(common_paths)
    /\ LookupPath(OutcomeOf(trace[1])) = None
    /\ \A k \in DOMAIN common_paths : trace[k + 1] = Exists(Named(common_paths[k]), FALSE) )
  => ( /\ Returned /\ result = Err("Ollama is not installed or not in PATH. Please install Ollama ...")
       /\ Len(trace) = 1 + Len(common_paths) )

C14_Witness ==
  /\ Launching /\ os = "linux" /\ Len(trace) >= 1 + Len(common_paths)
  /\ trace[1].ok /\ trace[1].code = Some(0)
  /\ LookupPath(OutcomeOf(trace[1])) = None
  /\ \A k \in DOMAIN common_paths : trace[k + 1] = Exists(Named(common_paths[k]), FALSE)

\* C15: on every platform, when the kill command ran and did not exit with
\* success (it matched or killed no process), stop_ollama_service returns Ok.
C15_NoMatchIsOk ==
  (Stopping /\ Returned /\ trace[1].ok /\ trace[1].code # Some(0))
    => result.kind = "Ok"

C15_Witness ==
  /\ Stopping /\ Returned /\ os = "windows"
  /\ trace[1].ok /\ trace[1].code = Some(128) /\ result.kind = "Ok"

\* C16: on every platform stop_ollama_service returns an error exactly when
\* the kill command could not be executed.
C16_ErrorIffNotExecuted ==
  (Stopping /\ Returned) => (result.kind = "Err" <=> ~trace[1].ok)

(***************************************************************************)
(* C17..C20: the install workflow (SpecInstall).                            *)
(***************************************************************************)
Installing == cmd = "download_ollama_zip"

\* Whether a path is the install directory or lies in it.
IsInside(path) ==
  Len(path) >= Len(install_path) /\ SubSeq(path, 1, Len(install_path)) = install_path

\* Whether a stored name leaves the install directory when it is resolved
\* from there.
Escapes(name) == HasPrefix(name) \/ HasRoot(name) \/ ~IsInside(OutPath(Components(name)))

\* C17: whatever the archive holds, every file or directory that comes to
\* exist while the entries are extracted lies inside the install directory.
C17_ExtractionStaysInside ==
  [][(Installing /\ pc = "extract") => \A x \in fs' \ fs : IsInside(x.path)]_vars

\* An entry whose name escapes was passed over and the entry after it, whose
\* name holds ".." and stays inside, was written.
C17_Witness ==
  /\ Installing /\ pc = "extract" /\ local.i = 2
  /\ Escapes(zipBody.archive[1].name)
  /\ zipBody.archive[2].name = <<108, 105, 98, 47, 46, 46, 47, 121>>
  /\ File(install_path \o <<(<<121>>)>>) \in fs
  /\ fs \ {File(temp_zip_path)} \subseteq Mkdirs({}, install_path) \cup {File(install_path \o <<(<<121>>)>>)}

\* Whether the call came to the verification of the executable.
ReachedVerification == \E i \in DOMAIN trace : trace[i].stage = "verify"

\* C18: the call returns Ok only if ollama.exe exists at the install path;
\* when download and extraction succeeded and the executable is absent, the
\* call returns an error and "completed" is not emitted.
C18_SuccessMeansInstalled ==
  Installing =>
    /\ ReturnedOk => PathExists(fs, ollama_exe)
    /\ (Returned /\ ReachedVerification /\ ~PathExists(fs, ollama_exe)) =>
         /\ result = Err("Extraction failed: ollama.exe not found")
         /\ \A k \in DOMAIN emitted : emitted[k] # Status("completed")

\* A file was extracted, the archive held no executable, and the call failed
\* at the verification.
C18_Witness ==
  /\ Installing /\ Returned /\ ReachedVerification
  /\ ~PathExists(fs, ollama_exe)
  /\ local.total_files = 2 /\ \E x \in fs : x.kind = "file" /\ IsInside(x.path)
  /\ result.kind = "Err"

\* The errors a failed step of the pipeline returns.
StageErrors(e) ==
  CASE e.op = "get" -> {"Download request failed: ", "Download failed: HTTP "}
    [] e.op = "next" -> {"Download stream error: "}
    [] e.op = "write_all" -> {"Failed to write to temp file: "}
    [] e.op = "open" -> {"Failed to open ZIP file: "}
    [] e.op = "ZipArchive::new" -> {"Failed to read ZIP archive: "}
    [] e.op = "by_index" -> {"Failed to access ZIP entry: "}
    [] e.op = "copy" -> {"Failed to extract file: "}
    [] e.op = "exists" -> {"Extraction failed: ollama.exe not found"}
    [] e.op = "create" ->
         IF e.stage = "download" THEN {"Failed to create temp file: "}
         ELSE {"Failed to create output file: "}
    [] e.op = "create_dir_all" ->
         IF e.stage = "prepare" THEN {"Failed to create temp directory: "}
         ELSE {"Failed to create installation directory: ",
               "Failed to create directory: ", "Failed to create parent directory: "}
    [] OTHER -> {}

IsEmit(e) == e.op = "emit"
EmitsOf(t) == [k \in 1..Len(SelectSeq(t, IsEmit)) |-> SelectSeq(t, IsEmit)[k].what]

\* C19: the pipeline is linear: a stage that failed (anything but the
\* deletion of the temporary file, whose failure is dropped) is the last
\* thing the call did, the call returned that stage's error, and the events
\* emitted are those emitted before it.
C19_LinearPipeline ==
  Installing =>
    /\ \A i \in DOMAIN trace :
         (~trace[i].ok /\ trace[i].op # "remove_file") =>
           /\ i = Len(trace) /\ Returned
           /\ result.kind = "Err" /\ result.msg \in StageErrors(trace[i])
    /\ emitted = EmitsOf(trace)

\* The copy of the second entry failed after the first was extracted.
C19_Witness ==
  /\ Installing /\ Returned /\ trace # <<>>
  /\ trace[Len(trace)].op = "copy" /\ ~trace[Len(trace)].ok
  /\ local.i = 1
  /\ \E i \in DOMAIN trace : trace[i].op = "copy" /\ trace[i].ok
  /\ result = Err("Failed to extract file: ")

IsStatus(ev) == ev.event = "ollama_download_status"
Statuses == [k \in 1..Len(SelectSeq(emitted, IsStatus)) |-> SelectSeq(emitted, IsStatus)[k].status]

\* C20: the status notifications are a prefix of downloading, extracting,
\* completed; "extracting" is emitted only once the whole archive has been
\* downloaded; "completed" is emitted exactly when the call returns Ok.
C20_StatusSequence ==
  Installing =>
    /\ Statuses \in { <<>>, <<"downloading">>, <<"downloading", "extracting">>,
                      <<"downloading", "extracting", "completed">> }
    /\ Len(Statuses) >= 2 => local.downloaded = zipBody.size
    /\ Len(Statuses) = 3 <=> ReturnedOk

\* An archive of two MiB that came in several chunks was installed.
C20_Witness ==
  /\ Installing /\ ReturnedOk /\ zipBody.size = 2 * MiB
  /\ Len(Statuses) = 3
  /\ Cardinality({i \in DOMAIN trace : trace[i].op = "write_all"}) >= 2

(***************************************************************************)
(* C21: emissions that fail (SpecEvents).                                   *)
(***************************************************************************)
\* What the installer did apart from emitting.
IsWork(e) == e.op # "emit"
Work == SelectSeq(trace, IsWork)

\* Whether a step of the installer failed in a way that ends the call.
Fatal(e) == ~e.ok /\ e.op # "remove_file"

\* The errors of the installer that no recorded step stands for.
EarlyErrors == {"ZIP installation only supported on Windows", "Failed to get LOCALAPPDATA: "}

\* Whether some emission of the call has failed.
EmissionFailed == \E k \in undelivered : k <= Len(emitted)

\* C21: a failed emission changes nothing but the delivery of that event.
\* A streaming call has the buffer, the records and the emissions of the
\* same call on a window that takes every event, and it returns for the
\* same reason: a record's error, the end of the stream, a stream error, or
\* a failed request.  The installer returns an error only for a step other
\* than an emission that failed, goes on while no such step failed, and
\* returns Ok only after the verification.
C21_EmitIsBestEffort ==
  /\ Streaming =>
       /\ Decoder(buffer, emitted, decoded, alone.result) = alone
       /\ alone.result # NoResult => Returned /\ result = alone.result
       /\ (Returned /\ alone.result = NoResult) =>
            \/ result = Ok(<<>>) /\ pos = Len(net)
            \/ result = Err("Stream error: ")
            \/ /\ pos = 0 /\ (srvResp.err \/ ~is_success(srvResp.status))
               /\ result.kind = "Err"
  /\ Installing =>
       /\ \A i \in DOMAIN Work :
            Fatal(Work[i]) =>
              /\ i = Len(Work) /\ Returned
              /\ result.kind = "Err" /\ result.msg \in StageErrors(Work[i])
       /\ (Returned /\ result.kind = "Err") =>
            IF Work = <<>> THEN result.msg \in EarlyErrors
            ELSE Fatal(Work[Len(Work)]) \/ result.msg \in EarlyErrors
       /\ ReturnedOk => Work # <<>> /\ Work[Len(Work)].op = "exists" /\ Work[Len(Work)].ok
       /\ emitted = EmitsOf(trace)

\* The first chunk of a chat stream was not delivered; the call went on,
\* emitted the second and returned Ok.
C21_Witness ==
  /\ cmd = "ollama_chat_stream" /\ ReturnedOk
  /\ 1 \in undelivered /\ 2 \notin undelivered
  /\ Len(emitted) = 2 /\ Len(decoded) = 2

(***************************************************************************)
(* C22: download progress (SpecInstall).                                    *)
(***************************************************************************)
IsDownloadProgress(ev) == ev.event = "ollama_download_progress"
Reports == SelectSeq(emitted, IsDownloadProgress)

\* Whether the byte stream of the download came to its end.
DownloadComplete == \E i \in DOMAIN trace : trace[i].stage = "extract"

\* The report at rank k follows a chunk that took the byte count across a
\* multiple of 1 MiB, none having been made since the multiple before, or
\* it is made at the reported total.
Throttled(reports, k) ==
  \/ reports[k].downloaded = reports[k].total
  \/ reports[k].downloaded \div MiB >
       (IF k = 1 THEN 0 ELSE reports[k - 1].downloaded \div MiB)

\* C22: progress is reported only across a multiple of 1 MiB or at the
\* total, and a download that came to its end has a last report with
\* downloaded equal to the size of the body and percent 100, whatever the
\* chunks were and whether or not the size was announced.
C22_ThrottledWithFinalReport ==
  Installing =>
    /\ \A k \in DOMAIN Reports : Throttled(Reports, k)
    /\ DownloadComplete =>
         /\ Reports # <<>>
         /\ Reports[Len(Reports)].downloaded = zipBody.size
         /\ Reports[Len(Reports)].percent = AsF64(100)

(***************************************************************************)
(* C23: the two launch strategies on Linux (SpecService).                   *)
(***************************************************************************)
IsStatusQuery(e) == e.op = "output" /\ e.prog = Named("systemctl")
IsUnitStart(e) == e.op = "spawn" /\ e.prog = Named("systemctl")
IsDirectSpawn(e) == e.op = "spawn" /\ e.prog # Named("systemctl")

\* The status query ran and exited with a code from 0 to 3.
Recognized(e) == e.ok /\ e.code \in {Some(c) : c \in 0..3}

\* Whether the entry after the status query at rank i is a start command
\* that was spawned.
StartedByManager(i) ==
  Recognized(trace[i]) /\ i < Len(trace) /\ IsUnitStart(trace[i + 1]) /\ trace[i + 1].ok

\* C23: on Linux the status query is followed by the service manager's start
\* command exactly when it reported a recognized state; when that command was
\* spawned the call returns Ok and the executable is never spawned; the
\* executable is spawned, once, from the resolved path and as the last thing
\* the call does, exactly when the service manager did not start the
\* service.
C23_ManagerThenDirect ==
  (Launching /\ os = "linux") =>
    /\ \A i \in DOMAIN trace :
         IsStatusQuery(trace[i]) =>
           /\ Recognized(trace[i]) <=> (i < Len(trace) /\ IsUnitStart(trace[i + 1]))
           /\ StartedByManager(i) =>
                /\ Returned /\ result = Ok("Ollama service started via systemd.")
                /\ \A j \in DOMAIN trace : ~IsDirectSpawn(trace[j])
           /\ (Returned /\ ~StartedByManager(i)) =>
                \E j \in DOMAIN trace : IsDirectSpawn(trace[j])
    /\ \A j \in DOMAIN trace :
         IsUnitStart(trace[j]) => j > 1 /\ IsStatusQuery(trace[j - 1])
    /\ \A j \in DOMAIN trace :
         IsDirectSpawn(trace[j]) =>
           /\ j = Len(trace) /\ Returned
           /\ trace[j] \in {Spawn(local.ollama_path, Serve, b) : b \in BOOLEAN}
           /\ \E i \in 1..(j - 1) : IsStatusQuery(trace[i]) /\ ~StartedByManager(i)

\* The unit was stopped (exit code 3), its start command was spawned, and
\* the call returned Ok without spawning the executable.
C23_Witness ==
  /\ Launching /\ os = "linux" /\ ReturnedOk
  /\ \E i \in DOMAIN trace :
       /\ IsStatusQuery(trace[i]) /\ trace[i].code = Some(3)
       /\ StartedByManager(i) /\ i + 1 = Len(trace)

(***************************************************************************)
(* C24: extraction progress (SpecInstall).                                  *)
(***************************************************************************)
IsExtractionProgress(ev) == ev.event = "ollama_extraction_progress"
Extracted == SelectSeq(emitted, IsExtractionProgress)

\* Whether the extraction loop went through every entry of the archive.
ExtractionComplete ==
  /\ Installing /\ DownloadComplete
  /\ \E i \in DOMAIN trace : trace[i].stage = "cleanup"

\* C24: the extraction reports come in increasing entry order, and once the
\* loop went through an archive of at least one entry, whatever the entries
\* are, the last report has current equal to total.
C24_FinalExtractionReport ==
  Installing =>
    /\ \A j \in DOMAIN Extracted, k \in DOMAIN Extracted :
         j < k => Extracted[j].current < Extracted[k].current
    /\ (ExtractionComplete /\ local.total_files >= 1) =>
         /\ Extracted # <<>>
         /\ Extracted[Len(Extracted)].current = Extracted[Len(Extracted)].total
         /\ Extracted[Len(Extracted)].total = local.total_files

(***************************************************************************)
(* C25: an entry that would escape (SpecInstall).                           *)
(***************************************************************************)
\* Whether the extraction loop took the entry at index i of the archive.
Took(i) == \E k \in DOMAIN trace : trace[k].op = "by_index" /\ trace[k].what = i /\ trace[k].ok

\* C25: when the loop takes an entry whose path would escape the install
\* directory, the extraction stops there and the call returns an error: no
\* later entry is taken and the call does not return Ok.
C25_TraversalIsFatal ==
  (Installing /\ zipBody # NoBody) =>
    \A i \in 0..(Len(zipBody.archive) - 1) :
      (Took(i) /\ Escapes(zipBody.archive[i + 1].name)) =>
        /\ Returned /\ result.kind = "Err"
        /\ \A j \in (i + 1)..(Len(zipBody.archive) - 1) : ~Took(j)

(***************************************************************************)
(* C26: the close handler (SpecClose).                                      *)
(***************************************************************************)
\* The commands stop_ollama_service may have run on this platform.
KillCommands == {KillCommand(os, o) : o \in KillOutcomes}

\* C26: until the close request the terminator of the handler has not run;
\* from the request on the handler either waits for it, nothing run yet, or
\* it has returned, having run its command once, and then the close can
\* proceed whatever it returned; the window closes only once the terminator
\* returned, whatever command is in flight beside it.
C26_CloseAlwaysProceeds ==
  /\ window = "open" => closer = NoCloser
  /\ window = "closing" =>
       \/ closer.pc = "start" /\ closer.ran = <<>>
       \/ /\ closer.pc = "returned" /\ Len(closer.ran) = 1 /\ closer.ran[1] \in KillCommands
          /\ ENABLED CloseProceeds
  /\ window = "closed" =>
       /\ closer.pc = "returned" /\ Len(closer.ran) = 1 /\ closer.ran[1] \in KillCommands

\* The close was requested while the launcher was in flight; the terminator
\* could not run its command and returned an error; the window closed.
C26_Witness ==
  /\ window = "closed" /\ closer.result.kind = "Err" /\ ~closer.ran[1].ok
  /\ cmd = "start_ollama_service" /\ ~Returned

(***************************************************************************)
(* C27: two streaming calls at once (SpecPair).                             *)
(***************************************************************************)
\* C27: with the chunks of two streaming calls arriving in any order, each
\* call has the buffer, the records and the emissions of the same call run
\* by itself on the same chunks, and its records are those of the bytes of
\* its own stream.
C27_BufferPerCall ==
  other # NoCall =>
    /\ Decoder(buffer, emitted, decoded, alone.result) = alone
    /\ alone.result # NoResult => pc = "returned" /\ result = alone.result
    /\ decoded = OneChunk(cmd, SubSeq(net, 1, pos)).decoded
    /\ Decoder(other.buffer, other.emitted, other.decoded, other.alone.result) = other.alone
    /\ other.alone.result # NoResult =>
         other.pc = "returned" /\ other.result = other.alone.result
    /\ other.decoded = OneChunk(other.cmd, SubSeq(other.net, 1, other.pos)).decoded

\* A chat stream and a pull, each with one record decoded and part of its
\* second line in its buffer.
C27_Witness ==
  /\ other # NoCall /\ cmd = "ollama_chat_stream" /\ other.cmd = "download_ollama_model"
  /\ pc = "stream" /\ other.pc = "stream"
  /\ Len(decoded) = 1 /\ Len(other.decoded) = 1
  /\ buffer # <<>> /\ other.buffer # <<>>

(***************************************************************************)
(* C28: the buffer between two chunks (SpecStream).                         *)
(***************************************************************************)
\* The bytes the stream has delivered, and those after the last line break
\* among them.
Received == SubSeq(net, 1, pos)
SinceLastBreak ==
  SubSeq(Received,
         IF LineBreaks(Received) = <<>> THEN 1
         ELSE LineBreaks(Received)[Len(LineBreaks(Received))] + 1,
         Len(Received))

\* C28: while a streaming call waits for its next chunk, its buffer holds no
\* line break and is the text of the bytes received since the last line
\* break, and every complete line received that is a record has been parsed,
\* once.
C28_BufferIsTail ==
  (Streaming /\ pc = "stream") =>
    /\ find(buffer, 10) = 0
    /\ buffer = from_utf8_lossy(SinceLastBreak)
    /\ Len(decoded) = Len(ValidRecords(Received))

(***************************************************************************)
(* C29: running and ping (SpecProbe).                                       *)
(***************************************************************************)
\* C29: check_ollama_status reports running exactly when the version request
\* answered with a success status, whatever became of the model list, and
\* that is the value ping_ollama returns for the same answer.
C29_RunningIsPing ==
  /\ CheckReturned =>
       /\ result.kind = "Ok"
       /\ result.value.running = ~VersionFailed
       /\ Ok(result.value.running) = PingResult(srvVersion)
  /\ (cmd = "ping_ollama" /\ Returned) => result = Ok(~VersionFailed)

\* The server answered the version request and failed the model list:
\* running is reported.
C29_Witness ==
  /\ CheckReturned /\ ~VersionFailed /\ ~srvTags.err /\ srvTags.status = 404
  /\ result.value.running

(***************************************************************************)
(* C30: one launch at most (SpecService).                                   *)
(***************************************************************************)
\* The launch attempts of the call that started a process.
Launches == {i \in DOMAIN trace : Launched(trace[i])}

\* C30: on every platform a call of start_ollama_service starts at most one
\* process: of its launch attempts (the server executable, the packaged
\* application, the service manager's start command) at most one succeeds.
C30_AtMostOneLaunch ==
  Launching => Cardinality(Launches) <= 1

\* A call that made several launch attempts, the last of which started a
\* process.
C30_Witness ==
  /\ Launching /\ Returned
  /\ Cardinality({i \in DOMAIN trace : IsLaunch(trace[i])}) >= 2
  /\ Launches = {Len(trace)}

(***************************************************************************)
(* C31: content before the error, within one record (SpecStream).           *)
(***************************************************************************)
\* What a pull record reports, read from the record itself.
ReportOf(data) ==
  Progress(unwrap_or(as_str(Index(data, K_status)), <<>>),
           unwrap_or(as_u64(Index(data, K_total)), 0),
           unwrap_or(as_u64(Index(data, K_completed)), 0))

\* The chunk a chat record with content stands for.
ChunkOf(data) ==
  StreamChunk(ContentOf(data)[1], unwrap_or(as_bool(Index(data, K_done)), FALSE))

\* The record a call failed on: the last one decoded.
FailedOn == decoded[Len(decoded)]

\* C31: a call that failed with a server error failed on the last record it
\* decoded, and that record's own event was emitted before the failure: in
\* ollama_chat_stream a record with message.content and an error field has
\* its content as the last chunk emitted (one chunk per record with content),
\* and the call's error is the record's; in download_ollama_model the last
\* event emitted is the progress of the record whose error string failed the
\* call (one event per record).
C31_ContentBeforeError ==
  ServerError =>
    /\ Len(decoded) > 0
    /\ cmd = "ollama_chat_stream" =>
         /\ HasError(FailedOn)
         /\ result.text = unwrap_or(as_str(Index(FailedOn, K_error)), T_unknown_error)
         /\ Len(emitted) = Len(SelectSeq(decoded, HasContent))
         /\ HasContent(FailedOn) =>
              /\ Len(emitted) > 0
              /\ emitted[Len(emitted)] = ChunkOf(FailedOn)
    /\ cmd = "download_ollama_model" =>
         /\ as_str(Index(FailedOn, K_error)) = Some(result.text)
         /\ Len(emitted) = Len(decoded)
         /\ emitted[Len(emitted)] = ReportOf(FailedOn)

\* A chat call failed on a record that carries both content and an error:
\* the content is the last chunk emitted and the error is the call's.
C31_Witness ==
  /\ cmd = "ollama_chat_stream" /\ ServerError
  /\ HasContent(FailedOn) /\ HasError(FailedOn)
  /\ emitted[Len(emitted)].content = ContentOf(FailedOn)[1]
  /\ result.text = <<121>>
====
